---- MODULE Spec2Model ----
(***************************************************************************)
(* lambdash.task: a Task is a product type with one field, exec, a         *)
(* function of two continuations (reject, resolve).  Every combinator      *)
(* builds a new Task whose executor closes over the executors of its       *)
(* inputs.  The model is an interpreter of those executors:                *)
(*                                                                         *)
(*   - a task is a record tagged with the combinator that built it;        *)
(*   - Exec(s, f, p, t) is the call t.exec(reject, resolve) made in fork   *)
(*     f at position p of the composed task (p = <<>> is the task handed   *)
(*     to Task.fork, p \o <<i>> is the i-th task its executor invokes);    *)
(*   - Settle(s, f, p, ch, v) is the call of the continuation ch           *)
(*     ("rej" or "res") that position p was given, with value v: the body  *)
(*     of the callback the enclosing combinator passed down;               *)
(*   - the host (timers, the immediate queue, pending user callbacks) is   *)
(*     what the actions of Next step.                                      *)
(***************************************************************************)
EXTENDS Integers, Sequences, FiniteSets, TLC

\* Bounds of the model.
MaxTasks == 3
MaxForks == 2
MaxLeafExecs == 6
MaxMs == 1

VARIABLES input, program, nforks, frames, local, shared, pending, timers, queue, log

vars == <<input, program, nforks, frames, local, shared, pending, timers, queue, log>>

(***************************************************************************)
(* Values and the user functions handed to the combinators.                *)
(***************************************************************************)
Front(xs) == SubSeq(xs, 1, Len(xs) - 1)

Last(xs) == xs[Len(xs)]

\* _.concat on arrays
Concat(l, r) == l \o r

\* _.append(value, collection) on arrays
AppendTo(value, coll) == Append(coll, value)

\* M.of for arrays
ArrOf(v) == <<v>>

\* M.empty() for arrays
ArrEmpty == <<>>

\* A task supplied by the caller through the Task constructor: its executor
\* invokes exactly one continuation once, inside the executor call
\* (mode "sync") or later from a host callback (mode "async"), or throws v
\* without invoking any (mode "throw").
Leaf(mode, ch, v) == [op |-> "leaf", mode |-> mode, ch |-> ch, v |-> v]

\* Task(function(reject, resolve){ throw v })
Throwing(v) == Leaf("throw", "", v)

\* a task built by the caller whose executor never calls a continuation
Never == Leaf("never", "", 0)

\* a task built by the caller whose executor calls a continuation with v and
\* then the same continuation with v + 1
SettlingTwice(ch, v) == Leaf("twice", ch, v)

\* a task built by the caller whose executor calls a continuation with v and
\* then throws 20 + v
SettlingThenThrowing(ch, v) == Leaf("settleThrow", ch, v)

\* Task.of (598-602) and Task.reject (616-620)
of(value) == [op |-> "of", v |-> value]

reject(value) == [op |-> "reject", v |-> value]

(***************************************************************************)
(* The combinators.  Each only builds a Task around its arguments: no      *)
(* executor is invoked, no user function is called and no timer is armed   *)
(* until the task is forked.                                               *)
(***************************************************************************)
map(fn, task) == [op |-> "map", fn |-> fn, task |-> task]

mapRejected(fn, task) == [op |-> "mapRejected", fn |-> fn, task |-> task]

bimap(rejected, resolved, task) ==
    [op |-> "bimap", rejected |-> rejected, resolved |-> resolved, task |-> task]

recover(cond, transform, task) ==
    [op |-> "recover", cond |-> cond, transform |-> transform, task |-> task]

\* Task.recover(_.T)
alwaysRecover(transform, task) == recover("T", transform, task)

concatSeries(left, right) == [op |-> "concatSeries", left |-> left, right |-> right]

concatParallel(left, right) == [op |-> "concatParallel", left |-> left, right |-> right]

\* Task[fn](left, right) for fn one of the two concatenations
Concatenation(fn, left, right) ==
    IF fn = "concatSeries" THEN concatSeries(left, right) ELSE concatParallel(left, right)

ap(apply, task) == [op |-> "ap", apply |-> apply, task |-> task]

flatten(task) == [op |-> "flatten", task |-> task]

chain(fn, task) == [op |-> "chain", fn |-> fn, task |-> task]

chainRejected(fn, task) == [op |-> "chainRejected", fn |-> fn, task |-> task]

immediate(task) == [op |-> "immediate", task |-> task]

delay(ms, task) == [op |-> "delay", delay |-> ms, task |-> task]

timeoutWith(errFn, time, task) ==
    [op |-> "timeoutWith", errFn |-> errFn, time |-> time, task |-> task]

caught(task) == [op |-> "caught", task |-> task]

\* TimeoutError(time) with the unit of the message left out
TimeoutError_noUnit(time) ==
    [name |-> "TimeoutError",
     message |-> "Task timed out after " \o ToString(time),
     extra |-> <<>>,
     prototypes |-> <<"TimeoutError", "Error">>]

\* TimeoutError(time): called without new it returns new TimeoutError(time),
\* an object whose prototype chain is TimeoutError.prototype, Error.prototype
TimeoutError(time) ==
    [name |-> "TimeoutError",
     message |-> "Task timed out after " \o ToString(time) \o "ms",
     extra |-> <<>>,
     prototypes |-> <<"TimeoutError", "Error">>]

\* Task.timeout = Task.timeoutWith(Task.TimeoutError)
timeout(time, task) == timeoutWith("TimeoutError", time, task)

(***************************************************************************)
(* Callback-style functions.  One takes length - 1 numbers and a callback, *)
(* which it calls once, inside its own call (mode "sync") or later from a  *)
(* host callback (mode "async"), with (err, base + the numbers) or, style  *)
(* "valueOnly", with (base + the numbers).                                 *)
(***************************************************************************)
AsyncFn(style, mode, err, base, length) ==
    [style |-> style, mode |-> mode, err |-> err, base |-> base, length |-> length,
     bound |-> <<>>]

\* _.curry(async).apply(this, arguments): async with its first arguments given
Bind(async, arguments) == [async EXCEPT !.bound = @ \o arguments]

RECURSIVE Sum(_)
Sum(xs) == IF Len(xs) = 0 THEN 0 ELSE Head(xs) + Sum(Tail(xs))

\* the arguments async calls its callback with
CallbackArgs(async) ==
    IF async.style = "errFirst"
    THEN <<async.err, async.base + Sum(async.bound)>>
    ELSE <<async.base + Sum(async.bound)>>

fromAsync(async) == [op |-> "fromAsync", async |-> async]

fromAsync2(async) == [op |-> "fromAsync2", async |-> async]

\* _.curryN(async.length - 1, function(){ return Task.fromAsync(...) })
taskify(async) ==
    [op |-> "function", make |-> "fromAsync", async |-> async,
     length |-> async.length - 1, given |-> <<>>]

taskify2(async) ==
    [op |-> "function", make |-> "fromAsync2", async |-> async,
     length |-> async.length - 1, given |-> <<>>]

\* a curried function that keeps only the arguments of its last call
CallCurried_forgetful(g, arguments) ==
    IF Len(arguments) < g.length
    THEN [g EXCEPT !.given = arguments, !.length = @ - Len(arguments)]
    ELSE IF g.make = "fromAsync"
         THEN fromAsync(Bind(g.async, arguments))
         ELSE fromAsync2(Bind(g.async, arguments))

\* a function made by _.curryN called with some arguments: with fewer than
\* it still takes it returns a function taking the rest, otherwise it calls
\* the function it wraps with all the arguments given
CallCurried(g, arguments) ==
    IF Len(arguments) < g.length
    THEN [g EXCEPT !.given = @ \o arguments, !.length = @ - Len(arguments)]
    ELSE IF g.make = "fromAsync"
         THEN fromAsync(Bind(g.async, g.given \o arguments))
         ELSE fromAsync2(Bind(g.async, g.given \o arguments))

\* g called with each group of arguments in turn
RECURSIVE CallEach(_, _)
CallEach(g, groups) ==
    IF Len(groups) = 0 THEN g
    ELSE CallEach(CallCurried(g, Head(groups)), Tail(groups))

\* _.foldr(function(accum, task){ return Task.concatSeries(Task.map(M.of, task), accum) },
\*         Task.of(M.empty()), tasks): the array is folded from its last element.
\* the fold with the arguments of Task.concatSeries exchanged
RECURSIVE foldrSeries_flipped(_, _)
foldrSeries_flipped(accum, tasks) ==
    IF Len(tasks) = 0 THEN accum
    ELSE foldrSeries_flipped(concatSeries(accum, map("M.of", Last(tasks))), Front(tasks))

\* the fold of Task.series calling Task.concat, which is Task.concatParallel (742)
RECURSIVE foldrSeries_concat(_, _)
foldrSeries_concat(accum, tasks) ==
    IF Len(tasks) = 0 THEN accum
    ELSE foldrSeries_concat(concatParallel(map("M.of", Last(tasks)), accum), Front(tasks))

RECURSIVE foldrSeries(_, _)
foldrSeries(accum, tasks) ==
    IF Len(tasks) = 0 THEN accum
    ELSE foldrSeries(concatSeries(map("M.of", Last(tasks)), accum), Front(tasks))

series(tasks) ==
    IF Len(tasks) = 0 THEN of(ArrEmpty)
    ELSE foldrSeries(of(ArrEmpty), tasks)

\* the fold with the arguments of Task.concatParallel exchanged
RECURSIVE foldrParallel_flipped(_, _)
foldrParallel_flipped(accum, tasks) ==
    IF Len(tasks) = 0 THEN accum
    ELSE foldrParallel_flipped(concatParallel(accum, map("M.of", Last(tasks))), Front(tasks))

RECURSIVE foldrParallel(_, _)
foldrParallel(accum, tasks) ==
    IF Len(tasks) = 0 THEN accum
    ELSE foldrParallel(concatParallel(map("M.of", Last(tasks)), accum), Front(tasks))

parallel(tasks) ==
    IF Len(tasks) = 0 THEN of(ArrEmpty)
    ELSE foldrParallel(of(ArrEmpty), tasks)

\* Task.partition without the case for an empty collection
partition_noEmptyCase(tasks) == [op |-> "partition", tasks |-> tasks, l |-> Len(tasks)]

\* Task.partition: completed, resolveds and rejects are allocated by the call
\* of Task.partition itself (845-847), outside the executor; see Construct.
partition(tasks) ==
    IF Len(tasks) = 0 THEN of(Concat(ArrOf(ArrEmpty), ArrOf(ArrEmpty)))
    ELSE [op |-> "partition", tasks |-> tasks, l |-> Len(tasks)]

(***************************************************************************)
(* The functions the callers pass in, by name.                             *)
(***************************************************************************)
RECURSIVE Apply(_, _)

\* the name of _.compose(f, g)
compose(f, g) == "compose(" \o f \o "," \o g \o ")"

Apply(fn, v) ==
    CASE fn = "id" -> v
      [] fn = "inc" -> v + 1
      [] fn = "double" -> 2 * v
      [] fn = "M.of" -> ArrOf(v)
      [] fn = "T" -> TRUE
      [] fn = "eq11" -> v = 11
      [] fn = "eq12" -> v = 12
      [] fn = "errFn" -> 100 + v
      [] fn = "TimeoutError" -> TimeoutError(v)
      [] fn = "toOf" -> of(v + 1)
      [] fn = "toReject" -> reject(v + 1)
      [] fn = "toAsyncRes" -> Leaf("async", "res", v + 1)
      [] fn = "toAsyncRej" -> Leaf("async", "rej", v + 1)
      [] fn = "toThrow" -> Throwing(v + 20)
      [] fn = "Task.of" -> of(v)
      [] fn = compose("inc", "double") -> Apply("inc", Apply("double", v))
      [] fn = compose("double", "inc") -> Apply("double", Apply("inc", v))

(***************************************************************************)
(* The state the executors and their callbacks act on, threaded through    *)
(* one synchronous run of JavaScript as a record with the fields of vars.  *)
(***************************************************************************)
Undefined == "undefined"

Null == "null"

Handle == "handle"

Ev(type, f, p, ch, v) == [type |-> type, fork |-> f, path |-> p, ch |-> ch, v |-> v]

Logged(s, e) == [s EXCEPT !.log = Append(@, e)]

\* the function fn passed to the combinator at position q is called with v
Called(s, f, q, fn, v) == Logged(s, Ev("apply", f, q, fn, v))

SetLocal(s, f, p, rec) == [s EXCEPT !.local = (<<f, p>> :> rec) @@ @]

\* setTimeout(callback, ms) issued by the executor at position p of fork f
SetTimeout(s, f, p, ms) == [s EXCEPT !.timers = Append(@, [fork |-> f, path |-> p, ms |-> ms])]

\* clearTimeout(handle) of the timer armed by position p of fork f
ClearTimeout(s, f, p) ==
    [s EXCEPT !.timers = SelectSeq(@, LAMBDA t : ~(t.fork = f /\ t.path = p))]

\* The exception unwinding the current run of JavaScript, if any: while one is
\* set no further call is made, until a catch block takes it or the run ends.
NoThrow == [set |-> FALSE, fork |-> 0, v |-> 0]

Throw(s, f, v) == [s EXCEPT !.thrown = [set |-> TRUE, fork |-> f, v |-> v]]

\* the value the function resolved given to fork f throws when it is called,
\* 0 when it returns; the "fork" event of f holds it
ResolvedThrows(s, f) ==
    LET es == SelectSeq(s.log, LAMBDA e : e.type = "fork" /\ e.fork = f)
    IN  IF es = <<>> THEN 0 ELSE es[1].v

\* one of the two functions given to Task.fork is called with v
Continuation(s, f, ch, v) ==
    LET s1 == Logged(s, Ev("call", f, <<>>, ch, v))
    IN  IF ch = "res" /\ ResolvedThrows(s, f) # 0
        THEN Throw(s1, f, ResolvedThrows(s, f))
        ELSE s1

RECURSIVE Exec(_, _, _, _), Settle(_, _, _, _, _)

(***************************************************************************)
(* Value transforms: the callbacks passed to task.exec.                    *)
(***************************************************************************)
\* task.exec(_.compose(reject, fn), _.compose(resolve, fn))
map_cb_bothChannels(s, f, q, t, ch, v) ==
    Settle(Called(s, f, q, t.fn, v), f, q, ch, Apply(t.fn, v))

\* the resolve callback applying fn a second time to fn's result
map_cb_twice(s, f, q, t, ch, v) ==
    IF ch = "rej" THEN Settle(s, f, q, "rej", v)
    ELSE Settle(Called(s, f, q, t.fn, v), f, q, "res", Apply(t.fn, Apply(t.fn, v)))

\* task.exec(reject, _.compose(resolve, fn))
map_cb(s, f, q, t, ch, v) ==
    IF ch = "rej" THEN Settle(s, f, q, "rej", v)
    ELSE Settle(Called(s, f, q, t.fn, v), f, q, "res", Apply(t.fn, v))

\* task.exec(_.compose(reject, fn), resolve)
mapRejected_cb(s, f, q, t, ch, v) ==
    IF ch = "rej" THEN Settle(Called(s, f, q, t.fn, v), f, q, "rej", Apply(t.fn, v))
    ELSE Settle(s, f, q, "res", v)

\* bimap with the two transforms exchanged
bimap_cb_exchanged(s, f, q, t, ch, v) ==
    IF ch = "rej" THEN Settle(Called(s, f, q, t.resolved, v), f, q, "rej", Apply(t.resolved, v))
    ELSE Settle(Called(s, f, q, t.rejected, v), f, q, "res", Apply(t.rejected, v))

\* task.exec(_.compose(reject, rejected), _.compose(resolve, resolved))
bimap_cb(s, f, q, t, ch, v) ==
    IF ch = "rej" THEN Settle(Called(s, f, q, t.rejected, v), f, q, "rej", Apply(t.rejected, v))
    ELSE Settle(Called(s, f, q, t.resolved, v), f, q, "res", Apply(t.resolved, v))

\* _recover resolving with transform(value) whatever cond(value) is
recover_cb_ignoresCond(s, f, q, t, ch, v) ==
    IF ch = "rej"
    THEN LET s1 == Called(s, f, q, t.cond, v)
         IN  Settle(Called(s1, f, q, t.transform, v), f, q, "res", Apply(t.transform, v))
    ELSE Settle(s, f, q, "res", v)

\* task.exec(_recover, resolve)
recover_cb(s, f, q, t, ch, v) ==
    IF ch = "rej"
    THEN LET s1 == Called(s, f, q, t.cond, v)
         IN  IF Apply(t.cond, v)
             THEN Settle(Called(s1, f, q, t.transform, v), f, q, "res", Apply(t.transform, v))
             ELSE Settle(s1, f, q, "rej", v)
    ELSE Settle(s, f, q, "res", v)

(***************************************************************************)
(* Sequential combinators.  Child 1 is the task run first, child 2 the     *)
(* task its resolve callback starts.                                       *)
(***************************************************************************)
\* the inner callback resolving with _.concat(r, l)
concatSeries_cb_swapped(s, f, q, t, i, ch, v) ==
    IF ch = "rej" THEN Settle(s, f, q, "rej", v)
    ELSE IF i = 1
         THEN Exec(SetLocal(s, f, q, [l |-> v]), f, q \o <<2>>, t.right)
         ELSE Settle(s, f, q, "res", Concat(v, s.local[<<f, q>>].l))

\* left.exec(reject, function(l){ right.exec(reject, function(r){ resolve(_.concat(l,r)) }) })
concatSeries_cb(s, f, q, t, i, ch, v) ==
    IF ch = "rej" THEN Settle(s, f, q, "rej", v)
    ELSE IF i = 1
         THEN Exec(SetLocal(s, f, q, [l |-> v]), f, q \o <<2>>, t.right)
         ELSE Settle(s, f, q, "res", Concat(s.local[<<f, q>>].l, v))

\* the inner callback resolving with result instead of fnResult(result)
ap_cb_noApply(s, f, q, t, i, ch, v) ==
    IF ch = "rej" THEN Settle(s, f, q, "rej", v)
    ELSE IF i = 1
         THEN Exec(SetLocal(s, f, q, [fnResult |-> v]), f, q \o <<2>>, t.task)
         ELSE Settle(s, f, q, "res", v)

\* apply.exec(reject, function(fnResult){ task.exec(reject, function(result){ resolve(fnResult(result)) }) })
ap_cb(s, f, q, t, i, ch, v) ==
    IF ch = "rej" THEN Settle(s, f, q, "rej", v)
    ELSE IF i = 1
         THEN Exec(SetLocal(s, f, q, [fnResult |-> v]), f, q \o <<2>>, t.task)
         ELSE Settle(s, f, q, "res", Apply(s.local[<<f, q>>].fnResult, v))

\* task.exec(reject, resolve): the inner task is handed on, not started
flatten_cb_unflattened(s, f, q, t, i, ch, v) == Settle(s, f, q, ch, v)

\* task.exec(reject, function(result){ result.exec(reject, resolve) })
flatten_cb(s, f, q, t, i, ch, v) ==
    IF ch = "res" /\ i = 1 THEN Exec(s, f, q \o <<2>>, v)
    ELSE Settle(s, f, q, ch, v)

\* task.exec(function(result){ fn(result).exec(reject, resolve) }, ...): fn
\* given to both continuations of task
chain_cb_bothChannels(s, f, q, t, i, ch, v) ==
    IF i = 1 THEN Exec(Called(s, f, q, t.fn, v), f, q \o <<2>>, Apply(t.fn, v))
    ELSE Settle(s, f, q, ch, v)

\* task.exec(reject, function(result){ fn(result).exec(resolve, reject) })
chain_cb_crossed(s, f, q, t, i, ch, v) ==
    IF i = 1
    THEN IF ch = "res"
         THEN Exec(Called(s, f, q, t.fn, v), f, q \o <<2>>, Apply(t.fn, v))
         ELSE Settle(s, f, q, ch, v)
    ELSE Settle(s, f, q, IF ch = "res" THEN "rej" ELSE "res", v)

\* task.exec(reject, function(result){ fn(result).exec(reject, resolve) })
chain_cb(s, f, q, t, i, ch, v) ==
    IF ch = "res" /\ i = 1 THEN Exec(Called(s, f, q, t.fn, v), f, q \o <<2>>, Apply(t.fn, v))
    ELSE Settle(s, f, q, ch, v)

\* task.exec(function(result){ ... }, function(result){ ... }): fn given to
\* both continuations of task
chainRejected_cb_bothChannels(s, f, q, t, i, ch, v) ==
    IF i = 1 THEN Exec(Called(s, f, q, t.fn, v), f, q \o <<2>>, Apply(t.fn, v))
    ELSE Settle(s, f, q, ch, v)

\* task.exec(function(result){ fn(result).exec(reject, resolve) }, resolve)
chainRejected_cb(s, f, q, t, i, ch, v) ==
    IF ch = "rej" /\ i = 1 THEN Exec(Called(s, f, q, t.fn, v), f, q \o <<2>>, Apply(t.fn, v))
    ELSE Settle(s, f, q, ch, v)

(***************************************************************************)
(* Task.concatParallel.  l, r, lRet, rRet and rejected are variables of    *)
(* one executor invocation.                                                *)
(***************************************************************************)
\* _rej without the rejected flag
concatParallel_rej_unguarded(s, f, q, r) == Settle(s, f, q, "rej", r)

\* _rej testing a flag that all forks of the task share
concatParallel_rej_shared(s, f, q, r) ==
    IF \A k \in DOMAIN s.local : k[2] = q => ~s.local[k].rejected
    THEN Settle([s EXCEPT !.local[<<f, q>>].rejected = TRUE], f, q, "rej", r)
    ELSE s

concatParallel_rej(s, f, q, r) ==
    IF ~s.local[<<f, q>>].rejected
    THEN Settle([s EXCEPT !.local[<<f, q>>].rejected = TRUE], f, q, "rej", r)
    ELSE s

\* the left callback concatenating in completion order
concatParallel_left_arrival(s, f, q, result) ==
    LET s1 == [s EXCEPT !.local[<<f, q>>].l = result, !.local[<<f, q>>].lRet = TRUE]
        c == s1.local[<<f, q>>]
    IN  IF c.rRet THEN Settle(s1, f, q, "res", Concat(c.r, c.l)) ELSE s1

concatParallel_left(s, f, q, result) ==
    LET s1 == [s EXCEPT !.local[<<f, q>>].l = result, !.local[<<f, q>>].lRet = TRUE]
        c == s1.local[<<f, q>>]
    IN  IF c.rRet THEN Settle(s1, f, q, "res", Concat(c.l, c.r)) ELSE s1

\* the right callback resolving with _.concat(r, l)
concatParallel_right_swapped(s, f, q, result) ==
    LET s1 == [s EXCEPT !.local[<<f, q>>].r = result, !.local[<<f, q>>].rRet = TRUE]
        c == s1.local[<<f, q>>]
    IN  IF c.lRet THEN Settle(s1, f, q, "res", Concat(c.r, c.l)) ELSE s1

concatParallel_right(s, f, q, result) ==
    LET s1 == [s EXCEPT !.local[<<f, q>>].r = result, !.local[<<f, q>>].rRet = TRUE]
        c == s1.local[<<f, q>>]
    IN  IF c.lRet THEN Settle(s1, f, q, "res", Concat(c.l, c.r)) ELSE s1

\* right.exec(reject, ...): the right side given the bare reject
concatParallel_cb_bareRight(s, f, q, t, i, ch, v) ==
    IF ch = "rej"
    THEN IF i = 1 THEN concatParallel_rej(s, f, q, v) ELSE Settle(s, f, q, "rej", v)
    ELSE IF i = 1 THEN concatParallel_left(s, f, q, v)
         ELSE concatParallel_right(s, f, q, v)

concatParallel_cb(s, f, q, t, i, ch, v) ==
    IF ch = "rej" THEN concatParallel_rej(s, f, q, v)
    ELSE IF i = 1 THEN concatParallel_left(s, f, q, v)
         ELSE concatParallel_right(s, f, q, v)

\* an executor that does not start right once left has rejected inside its call
concatParallel_exec_skipRight(s, f, p, t) ==
    LET s0 == SetLocal(s, f, p, [l |-> Undefined, r |-> Undefined,
                                 lRet |-> FALSE, rRet |-> FALSE, rejected |-> FALSE])
        s1 == Exec(s0, f, p \o <<1>>, t.left)
    IN  IF s1.local[<<f, p>>].rejected THEN s1 ELSE Exec(s1, f, p \o <<2>>, t.right)

concatParallel_exec(s, f, p, t) ==
    LET s0 == SetLocal(s, f, p, [l |-> Undefined, r |-> Undefined,
                                 lRet |-> FALSE, rRet |-> FALSE, rejected |-> FALSE])
        s1 == Exec(s0, f, p \o <<1>>, t.left)
    IN  Exec(s1, f, p \o <<2>>, t.right)

(***************************************************************************)
(* Task.partition.  completed, resolveds and rejects belong to the task    *)
(* (shared[q], one record per partition task), not to one fork.            *)
(***************************************************************************)
\* _check resolving with the resolved values first
partition_check_swapped(s, f, q, t) ==
    LET s1 == [s EXCEPT !.shared[q].completed = @ + 1]
        c == s1.shared[q]
    IN  IF c.completed = t.l
        THEN Settle(s1, f, q, "res", Concat(ArrOf(c.resolveds), ArrOf(c.rejects)))
        ELSE s1

partition_check(s, f, q, t) ==
    LET s1 == [s EXCEPT !.shared[q].completed = @ + 1]
        c == s1.shared[q]
    IN  IF c.completed = t.l
        THEN Settle(s1, f, q, "res", Concat(ArrOf(c.rejects), ArrOf(c.resolveds)))
        ELSE s1

\* task.exec(reject, _res): a rejection of a task rejects the whole
partition_rej_forward(s, f, q, t, value) == Settle(s, f, q, "rej", value)

partition_rej(s, f, q, t, value) ==
    partition_check([s EXCEPT !.shared[q].rejects = AppendTo(value, @)], f, q, t)

partition_res(s, f, q, t, value) ==
    partition_check([s EXCEPT !.shared[q].resolveds = AppendTo(value, @)], f, q, t)

partition_cb(s, f, q, t, ch, v) ==
    IF ch = "rej" THEN partition_rej(s, f, q, t, v) ELSE partition_res(s, f, q, t, v)

\* _.foldr(function(accum, task){ task.exec(_rej, _res) }, null, tasks):
\* the tasks are started from the last to the first.
RECURSIVE partition_foldr(_, _, _, _, _)
partition_foldr(s, f, p, t, k) ==
    IF k = 0 THEN s
    ELSE partition_foldr(Exec(s, f, p \o <<k>>, t.tasks[k]), f, p, t, k - 1)

partition_exec(s, f, p, t) == partition_foldr(s, f, p, t, Len(t.tasks))

(***************************************************************************)
(* Timing combinators.                                                     *)
(***************************************************************************)
\* _reject and _resolve forwarding without looking at the timeout variable
timeoutWith_cb_unguarded(s, f, q, t, ch, v) ==
    Settle(ClearTimeout(s, f, q), f, q, ch, v)

\* _reject and _resolve forwarding without clearTimeout
timeoutWith_cb_noClear(s, f, q, t, ch, v) ==
    IF s.local[<<f, q>>].timeout # Null
    THEN Settle(s, f, q, ch, v)
    ELSE s

\* _reject and _resolve of Task.timeoutWith
timeoutWith_cb(s, f, q, t, ch, v) ==
    IF s.local[<<f, q>>].timeout # Null
    THEN Settle(ClearTimeout(s, f, q), f, q, ch, v)
    ELSE s

\* the timer callback rejecting without setting timeout to null
timeoutWith_timer_keepsHandle(s, f, p, t) ==
    Settle(Called(s, f, p, t.errFn, t.time), f, p, "rej", Apply(t.errFn, t.time))

\* the timer callback also cancelling what the task of the fork has under way
timeoutWith_timer_cancels(s, f, p, t) ==
    LET s1 == [s EXCEPT !.local[<<f, p>>].timeout = Null,
                        !.pending = {k \in @ : k[1] # f},
                        !.timers = SelectSeq(@, LAMBDA e : e.fork # f)]
    IN  Settle(Called(s1, f, p, t.errFn, t.time), f, p, "rej", Apply(t.errFn, t.time))

\* the callback given to setTimeout by Task.timeoutWith
timeoutWith_timer(s, f, p, t) ==
    Settle(Called([s EXCEPT !.local[<<f, p>>].timeout = Null], f, p, t.errFn, t.time),
           f, p, "rej", Apply(t.errFn, t.time))

\* the executor starting the task before it arms the timer
timeoutWith_exec_startsFirst(s, f, p, t) ==
    LET s0 == SetLocal(s, f, p, [timeout |-> Null])
        s1 == Exec(s0, f, p \o <<1>>, t.task)
    IN  [SetTimeout(s1, f, p, t.time) EXCEPT !.local[<<f, p>>].timeout = Handle]

\* the executor starting the task without arming the timer
timeoutWith_exec_noTimer(s, f, p, t) ==
    Exec(SetLocal(s, f, p, [timeout |-> Handle]), f, p \o <<1>>, t.task)

timeoutWith_exec(s, f, p, t) ==
    LET s0 == SetLocal(s, f, p, [timeout |-> Null])
        s1 == [SetTimeout(s0, f, p, t.time) EXCEPT !.local[<<f, p>>].timeout = Handle]
    IN  Exec(s1, f, p \o <<1>>, t.task)

\* the timer armed and task.exec(reject, resolve) not waiting for it
delay_exec_noWait(s, f, p, t) == Exec(SetTimeout(s, f, p, t.delay), f, p \o <<1>>, t.task)

\* setTimeout(function(){ task.exec(reject, resolve) }, delay)
delay_exec(s, f, p, t) == SetTimeout(s, f, p, t.delay)

\* task.exec(reject, resolve) inside the executor itself
immediate_exec_now(s, f, p, t) == Exec(s, f, p \o <<1>>, t.task)

\* immediate(function(){ task.exec(reject, resolve) })
immediate_exec(s, f, p, t) == [s EXCEPT !.queue = Append(@, [fork |-> f, path |-> p])]

\* task.exec(reject, resolve) without the try block
caught_exec_noTry(s, f, p, t) == Exec(s, f, p \o <<1>>, t.task)

\* try { task.exec(reject, resolve) } catch(e) { reject(e) }
caught_exec(s, f, p, t) ==
    LET s1 == Exec(s, f, p \o <<1>>, t.task)
    IN  IF s1.thrown.set
        THEN Settle([s1 EXCEPT !.thrown = NoThrow], f, p, "rej", s1.thrown.v)
        ELSE s1

\* an executor that runs in the first fork only: later forks are handed the
\* outcome the first fork produced
Leaf_exec_memo(s, f, p, t) ==
    IF t.mode = "throw" THEN Throw(s, f, t.v)
    ELSE IF f > 1 /\ \E i \in 1..Len(s.log) :
                        s.log[i].type = "settle" /\ s.log[i].fork = 1 /\ s.log[i].path = p
    THEN Settle(s, f, p, t.ch, t.v)
    ELSE IF t.mode = "sync"
    THEN Settle(Logged(s, Ev("settle", f, p, t.ch, t.v)), f, p, t.ch, t.v)
    ELSE [s EXCEPT !.pending = @ \cup {<<f, p>>}]

\* function(err, result){ err ? reject(err) : resolve(result) }
fromAsync_cb_truthy(s, f, p, err, result) ==
    IF err \in {Null, Undefined, ""}
    THEN Settle(s, f, p, "res", result)
    ELSE Settle(s, f, p, "rej", err)

\* function(err, result){ err == null ? resolve(result) : reject(err) }
fromAsync_cb(s, f, p, err, result) ==
    IF err \in {Null, Undefined}
    THEN Settle(s, f, p, "res", result)
    ELSE Settle(s, f, p, "rej", err)

\* the callback resolve of Task.fromAsync2
fromAsync2_cb(s, f, p, value) == Settle(s, f, p, "res", value)

\* the async function calls the callback it was given
Callback(s, f, p, t) ==
    LET args == CallbackArgs(t.async)
        s1 == Logged(s, Ev("callback", f, p, "", args))
    IN  IF t.op = "fromAsync"
        THEN fromAsync_cb(s1, f, p, args[1], IF Len(args) > 1 THEN args[2] ELSE Undefined)
        ELSE fromAsync2_cb(s1, f, p, args[1])

\* async(function(err, result){ ... }) and async(resolve)
fromAsync_exec(s, f, p, t) ==
    LET s1 == Called(s, f, p, "async", t.async.bound)
    IN  IF t.async.mode = "sync"
        THEN Callback(s1, f, p, t)
        ELSE [s1 EXCEPT !.pending = @ \cup {<<f, p>>}]

\* The executor of a task built by the caller with the Task constructor.
Leaf_exec(s, f, p, t) ==
    CASE t.mode = "sync" ->
            Settle(Logged(s, Ev("settle", f, p, t.ch, t.v)), f, p, t.ch, t.v)
      [] t.mode = "async" -> [s EXCEPT !.pending = @ \cup {<<f, p>>}]
      [] t.mode = "throw" -> Throw(s, f, t.v)
      [] t.mode = "never" -> s
      [] t.mode = "twice" ->
            Settle(Settle(Logged(s, Ev("settle", f, p, t.ch, t.v)), f, p, t.ch, t.v),
                   f, p, t.ch, t.v + 1)
      [] t.mode = "settleThrow" ->
            LET s1 == Settle(Logged(s, Ev("settle", f, p, t.ch, t.v)), f, p, t.ch, t.v)
            IN  IF s1.thrown.set THEN s1 ELSE Throw(s1, f, 20 + t.v)

(***************************************************************************)
(* task.exec(reject, resolve) at position p of fork f.                     *)
(***************************************************************************)
Exec(s, f, p, t) ==
    IF s.thrown.set THEN s
    ELSE
    LET s1 == Logged([s EXCEPT !.frames = (<<f, p>> :> t) @@ @], Ev("exec", f, p, "", 0))
    IN  CASE t.op = "leaf" -> Leaf_exec(s1, f, p, t)
          [] t.op = "of" -> Settle(s1, f, p, "res", t.v)
          [] t.op = "reject" -> Settle(s1, f, p, "rej", t.v)
          [] t.op \in {"map", "mapRejected", "bimap", "recover",
                       "flatten", "chain", "chainRejected"} ->
                Exec(s1, f, p \o <<1>>, t.task)
          [] t.op = "concatSeries" -> Exec(s1, f, p \o <<1>>, t.left)
          [] t.op = "ap" -> Exec(s1, f, p \o <<1>>, t.apply)
          [] t.op = "concatParallel" -> concatParallel_exec(s1, f, p, t)
          [] t.op = "partition" -> partition_exec(s1, f, p, t)
          [] t.op = "immediate" -> immediate_exec(s1, f, p, t)
          [] t.op = "delay" -> delay_exec(s1, f, p, t)
          [] t.op = "timeoutWith" -> timeoutWith_exec(s1, f, p, t)
          [] t.op = "caught" -> caught_exec(s1, f, p, t)
          [] t.op \in {"fromAsync", "fromAsync2"} -> fromAsync_exec(s1, f, p, t)

(***************************************************************************)
(* The continuation ch handed to position p of fork f is called with v.    *)
(* At p = <<>> it is one of the two functions given to Task.fork.          *)
(***************************************************************************)
Settle(s, f, p, ch, v) ==
    IF s.thrown.set THEN s
    ELSE IF p = <<>> THEN Continuation(s, f, ch, v)
    ELSE LET q == Front(p)
             i == Last(p)
             t == s.frames[<<f, q>>]
         IN  CASE t.op = "map" -> map_cb(s, f, q, t, ch, v)
               [] t.op = "mapRejected" -> mapRejected_cb(s, f, q, t, ch, v)
               [] t.op = "bimap" -> bimap_cb(s, f, q, t, ch, v)
               [] t.op = "recover" -> recover_cb(s, f, q, t, ch, v)
               [] t.op = "concatSeries" -> concatSeries_cb(s, f, q, t, i, ch, v)
               [] t.op = "ap" -> ap_cb(s, f, q, t, i, ch, v)
               [] t.op = "flatten" -> flatten_cb(s, f, q, t, i, ch, v)
               [] t.op = "chain" -> chain_cb(s, f, q, t, i, ch, v)
               [] t.op = "chainRejected" -> chainRejected_cb(s, f, q, t, i, ch, v)
               [] t.op = "concatParallel" -> concatParallel_cb(s, f, q, t, i, ch, v)
               [] t.op = "partition" -> partition_cb(s, f, q, t, ch, v)
               [] t.op = "timeoutWith" -> timeoutWith_cb(s, f, q, t, ch, v)
               [] t.op \in {"immediate", "delay", "caught"} -> Settle(s, f, q, ch, v)

(***************************************************************************)
(* Construction.                                                           *)
(***************************************************************************)
\* the tasks a task was built from, in the positions its executor gives them
SubTasks(t) ==
    CASE t.op \in {"map", "mapRejected", "bimap", "recover", "flatten", "chain",
                   "chainRejected", "immediate", "delay", "timeoutWith",
                   "caught"} -> <<t.task>>
      [] t.op \in {"concatSeries", "concatParallel"} -> <<t.left, t.right>>
      [] t.op = "ap" -> <<t.apply, t.task>>
      [] t.op = "partition" -> t.tasks
      [] OTHER -> <<>>

\* the positions of the tasks built by Task.partition
RECURSIVE PartitionPaths(_, _)
PartitionPaths(t, p) ==
    (IF t.op = "partition" THEN {p} ELSE {})
    \cup UNION {PartitionPaths(SubTasks(t)[k], p \o <<k>>) : k \in 1..Len(SubTasks(t))}

\* var completed = 0; var resolveds = M.empty(); var rejects = M.empty();
Construct(t) ==
    [q \in PartitionPaths(t, <<>>) |->
        [completed |-> 0, resolveds |-> ArrEmpty, rejects |-> ArrEmpty]]

\* the caller-built executors one fork of t can invoke
RECURSIVE LeafPaths(_, _)
LeafPaths(t, p) ==
    (IF t.op \in {"leaf", "flatten", "chain", "chainRejected", "fromAsync", "fromAsync2"}
     THEN {p} ELSE {})
    \cup UNION {LeafPaths(SubTasks(t)[k], p \o <<k>>) : k \in 1..Len(SubTasks(t))}

LeafCount(t) == Cardinality(LeafPaths(t, <<>>))

(***************************************************************************)
(* The calls that build the task that is forked.  Task k of a call         *)
(* resolves with k (or <<k>> where an array is needed) or rejects with     *)
(* 10 + k.                                                                 *)
(***************************************************************************)
Modes == {"sync", "async"}

Chans == {"rej", "res"}

\* task k of a collection, or the task a transform is applied to
T(k, m, c) == Leaf(m, c, IF c = "res" THEN k ELSE 10 + k)

\* task k of a concatenation: its resolved value is an array
ArrT(k, m, c) == Leaf(m, c, IF c = "res" THEN <<k>> ELSE 10 + k)

\* a task resolving with a function, for Task.ap
FnT(m, c) == Leaf(m, c, IF c = "res" THEN "inc" ELSE 11)

\* a task resolving with a task, for Task.flatten
TaskT(m, c, inner) == Leaf(m, c, IF c = "res" THEN inner ELSE 11)

Collections == UNION {[1..n -> Modes \X Chans] : n \in 0..MaxTasks}

TasksOf(coll) == [k \in DOMAIN coll |-> T(k, coll[k][1], coll[k][2])]

TaskFns == {"toOf", "toReject", "toAsyncRes", "toAsyncRej"}

Durations == 0..MaxMs

\* A call of a combinator: the function called and its arguments.
Call(fn, args) == [fn |-> fn, args |-> args]

\* the Task the call returns
Build(c) ==
    LET a == c.args
    IN  CASE c.fn = "map" -> map(a[1], a[2])
          [] c.fn = "mapRejected" -> mapRejected(a[1], a[2])
          [] c.fn = "bimap" -> bimap(a[1], a[2], a[3])
          [] c.fn = "recover" -> recover(a[1], a[2], a[3])
          [] c.fn = "alwaysRecover" -> alwaysRecover(a[1], a[2])
          [] c.fn = "concatSeries" -> concatSeries(a[1], a[2])
          [] c.fn = "t4" -> Concatenation(a[1], Concatenation(a[1], a[2], a[3]), a[4])
          [] c.fn = "t5" -> Concatenation(a[1], a[2], Concatenation(a[1], a[3], a[4]))
          [] c.fn = "concatParallel" -> concatParallel(a[1], a[2])
          [] c.fn = "ap" -> ap(a[1], a[2])
          [] c.fn = "flatten" -> flatten(a[1])
          [] c.fn = "chain" -> chain(a[1], a[2])
          [] c.fn = "chainRejected" -> chainRejected(a[1], a[2])
          [] c.fn = "series" -> series(a[1])
          [] c.fn = "parallel" -> parallel(a[1])
          [] c.fn = "partition" -> partition(a[1])
          [] c.fn = "immediate" -> immediate(a[1])
          [] c.fn = "delay" -> delay(a[1], a[2])
          [] c.fn = "timeoutWith" -> timeoutWith(a[1], a[2], a[3])
          [] c.fn = "caught" -> caught(a[1])
          [] c.fn = "timeout" -> timeout(a[1], a[2])
          [] c.fn = "fromAsync" -> fromAsync(a[1])
          [] c.fn = "fromAsync2" -> fromAsync2(a[1])
          [] c.fn = "taskify" -> CallEach(taskify(a[1]), a[2])
          [] c.fn = "taskify2" -> CallEach(taskify2(a[1]), a[2])

TransformCalls(c) ==
    \E m \in Modes, ch \in Chans :
        \/ c = Call("map", <<"inc", T(1, m, ch)>>)
        \/ c = Call("map", <<"id", T(1, m, ch)>>)
        \/ c = Call("map", <<"inc", map("double", T(1, m, ch))>>)
        \/ c = Call("map", <<"double", map("inc", T(1, m, ch))>>)
        \/ c = Call("mapRejected", <<"inc", T(1, m, ch)>>)
        \/ c = Call("bimap", <<"double", "inc", T(1, m, ch)>>)
        \/ c = Call("bimap", <<"double", "inc", T(2, m, ch)>>)
        \/ c = Call("recover", <<"eq11", "inc", T(1, m, ch)>>)
        \/ c = Call("recover", <<"eq12", "inc", T(1, m, ch)>>)
        \/ c = Call("alwaysRecover", <<"inc", T(1, m, ch)>>)

SequentialCalls(c) ==
    \E m1 \in Modes, c1 \in Chans :
        \/ \E m2 \in Modes, c2 \in Chans :
              \/ c = Call("concatSeries", <<ArrT(1, m1, c1), ArrT(2, m2, c2)>>)
              \/ c = Call("ap", <<FnT(m1, c1), T(2, m2, c2)>>)
              \/ c = Call("flatten", <<TaskT(m1, c1, T(2, m2, c2))>>)
        \/ c = Call("chain", <<"Task.of", T(1, m1, c1)>>)
        \/ \E fn \in TaskFns :
              \/ c = Call("chain", <<fn, T(1, m1, c1)>>)
              \/ c = Call("chainRejected", <<fn, T(1, m1, c1)>>)

\* the calls the laws of map and chain are about
LawCalls(c) ==
    \E fn \in TaskFns : c = Call("chain", <<fn, of(1)>>)

\* t4 and t5 of the tests of multiple concatenations, over tasks that resolve
MultipleConcatenations(c) ==
    \E fn \in {"concatSeries", "concatParallel"}, m1 \in Modes, m2 \in Modes, m3 \in Modes :
        \/ c = Call("t4", <<fn, ArrT(1, m1, "res"), ArrT(2, m2, "res"), ArrT(3, m3, "res")>>)
        \/ c = Call("t5", <<fn, ArrT(1, m1, "res"), ArrT(2, m2, "res"), ArrT(3, m3, "res")>>)

ParallelCalls(c) ==
    \E m1 \in Modes, c1 \in Chans, m2 \in Modes, c2 \in Chans :
        c = Call("concatParallel", <<ArrT(1, m1, c1), ArrT(2, m2, c2)>>)

CollectionCalls(c) ==
    \E coll \in Collections :
        \/ c = Call("series", <<TasksOf(coll)>>)
        \/ c = Call("parallel", <<TasksOf(coll)>>)
        \/ c = Call("partition", <<TasksOf(coll)>>)

TimingCalls(c) ==
    \E m \in Modes, ch \in Chans :
        \/ c = Call("immediate", <<T(1, m, ch)>>)
        \/ \E ms \in Durations :
              \/ c = Call("delay", <<ms, T(1, m, ch)>>)
              \/ c = Call("timeoutWith", <<"errFn", ms, T(1, m, ch)>>)
              \/ c = Call("timeout", <<ms, T(1, m, ch)>>)
              \/ \E d \in Durations : c = Call("timeout", <<ms, delay(d, T(1, m, ch))>>)
              \/ \E d \in Durations :
                    c = Call("timeoutWith", <<"errFn", ms, delay(d, T(1, m, ch))>>)

\* Task.timeoutWith over a task that calls its continuations twice, at once
\* or after a delay, over a task that never calls them, and over a task
\* started from the host's queue
GuardCalls(c) ==
    \E ms \in Durations :
        \/ c = Call("timeoutWith", <<"errFn", ms, Never>>)
        \/ \E ch \in Chans :
              \/ c = Call("timeoutWith", <<"errFn", ms, SettlingTwice(ch, 1)>>)
              \/ \E d \in Durations :
                    c = Call("timeoutWith", <<"errFn", ms, delay(d, SettlingTwice(ch, 1))>>)
              \/ \E m \in Modes :
                    c = Call("timeoutWith", <<"errFn", ms, immediate(T(1, m, ch))>>)

\* Task.caught over a task that settles, that throws when its executor is
\* invoked, that settles and then throws, or that throws later from a host
\* callback
CaughtCalls(c) ==
    \/ \E m \in Modes, ch \in Chans :
          \/ c = Call("caught", <<T(1, m, ch)>>)
          \/ c = Call("caught", <<chain("toThrow", T(1, m, ch))>>)
    \/ c = Call("caught", <<Throwing(21)>>)
    \/ \E ch \in Chans : c = Call("caught", <<SettlingThenThrowing(ch, 1)>>)
    \/ c = Call("caught", <<map("inc", Throwing(21))>>)
    \/ \E ms \in Durations : c = Call("caught", <<delay(ms, Throwing(21))>>)
    \/ c = Call("caught", <<immediate(Throwing(21))>>)

\* the values a callback-style function reports as its error
Errs == {Null, Undefined, "", "oh no"}

\* the ways of giving a taskified function of two numbers its arguments
ArgumentGroups == {<<<<1, 2>>>>, <<<<1>>, <<2>>>>}

AdapterCalls(c) ==
    \E m \in Modes :
        \/ \E err \in Errs :
              \/ c = Call("fromAsync", <<AsyncFn("errFirst", m, err, 1, 1)>>)
              \/ c = Call("fromAsync2", <<AsyncFn("errFirst", m, err, 1, 1)>>)
              \/ \E groups \in ArgumentGroups :
                    c = Call("taskify", <<AsyncFn("errFirst", m, err, 0, 3), groups>>)
        \/ c = Call("fromAsync2", <<AsyncFn("valueOnly", m, Undefined, 1, 1)>>)
        \/ \E groups \in ArgumentGroups :
              c = Call("taskify2", <<AsyncFn("valueOnly", m, Undefined, 0, 3), groups>>)

Calls(c) ==
    \/ AdapterCalls(c)
    \/ LawCalls(c)
    \/ MultipleConcatenations(c)
    \/ TransformCalls(c)
    \/ SequentialCalls(c)
    \/ ParallelCalls(c)
    \/ CollectionCalls(c)
    \/ TimingCalls(c)
    \/ GuardCalls(c)
    \/ CaughtCalls(c)

(***************************************************************************)
(* The state machine.                                                      *)
(***************************************************************************)
State ==
    [frames |-> frames, local |-> local, shared |-> shared, pending |-> pending,
     timers |-> timers, queue |-> queue, log |-> log, thrown |-> NoThrow]

\* an exception leaving a host callback handed to the fork's rejected function
Uncaught_intoReject(s, where) ==
    IF s.thrown.set
    THEN IF where = "host"
         THEN Settle([s EXCEPT !.thrown = NoThrow], s.thrown.fork, <<>>, "rej", s.thrown.v)
         ELSE [Logged(s, Ev("throw", s.thrown.fork, <<>>, where, s.thrown.v))
                  EXCEPT !.thrown = NoThrow]
    ELSE s

\* The run of JavaScript ends: an exception no catch block took leaves it, out
\* of the call of Task.fork ("fork") or out of a host callback ("host").
Uncaught(s, where) ==
    IF s.thrown.set
    THEN [Logged(s, Ev("throw", s.thrown.fork, <<>>, where, s.thrown.v))
            EXCEPT !.thrown = NoThrow]
    ELSE s

Commit(s) ==
    /\ frames' = s.frames
    /\ local' = s.local
    /\ shared' = s.shared
    /\ pending' = s.pending
    /\ timers' = s.timers
    /\ queue' = s.queue
    /\ log' = s.log

\* a combinator whose call invokes the executor of the task it returns
Construction_eager(t) ==
    Uncaught(Exec([frames |-> <<>>, local |-> <<>>, shared |-> Construct(t), pending |-> {},
                   timers |-> <<>>, queue |-> <<>>, log |-> <<>>, thrown |-> NoThrow],
                  0, <<>>, t), "host")

\* What the call of a combinator leaves behind: a Task holding its executor,
\* which has not been invoked; no function passed in has been called and no
\* timer or immediate is set.
Construction(t) ==
    [frames |-> <<>>, local |-> <<>>, shared |-> Construct(t), pending |-> {},
     timers |-> <<>>, queue |-> <<>>, log |-> <<>>, thrown |-> NoThrow]

Init ==
    /\ Calls(input)
    /\ program = Build(input)
    /\ nforks = 0
    /\ LET s == Construction(program)
       IN  /\ frames = s.frames
           /\ local = s.local
           /\ shared = s.shared
           /\ pending = s.pending
           /\ timers = s.timers
           /\ queue = s.queue
           /\ log = s.log

\* What the function resolved given to a fork does besides recording its call:
\* it returns (0) or, in forks of caught over a caller-built task, throws 40.
ResolvedOutcomes ==
    IF input.fn = "caught" /\ input.args[1].op = "leaf" THEN {0, 40} ELSE {0}

\* Task.fork(rejected, resolved, task): task.exec(rejected, resolved)
Fork ==
    /\ nforks < MaxForks
    /\ (nforks + 1) * LeafCount(program) <= MaxLeafExecs
    /\ nforks' = nforks + 1
    /\ \E x \in ResolvedOutcomes :
          Commit(Uncaught(Exec(Logged(State, Ev("fork", nforks + 1, <<>>, "", x)),
                               nforks + 1, <<>>, program), "fork"))
    /\ UNCHANGED <<input, program>>

\* A caller-built executor that did not settle inside its call invokes its
\* continuation from a host callback.
CompleteStep(s, k) ==
    LET f == k[1]
        p == k[2]
        t == s.frames[k]
        s1 == [s EXCEPT !.pending = @ \ {k}]
    IN  Uncaught(IF t.op = "leaf"
                 THEN Settle(Logged(s1, Ev("settle", f, p, t.ch, t.v)), f, p, t.ch, t.v)
                 ELSE Callback(s1, f, p, t), "host")

Complete ==
    \E k \in pending :
        /\ Commit(CompleteStep(State, k))
        /\ UNCHANGED <<input, program, nforks>>

\* A timer armed earlier with a duration no longer than another's fires first;
\* the order of any other two timers is left open.
TimerDue(i) == \A j \in 1..(i - 1) : timers[j].ms > timers[i].ms

FireTimer ==
    \E i \in 1..Len(timers) :
        LET e == timers[i]
            t == frames[<<e.fork, e.path>>]
            s == Logged([State EXCEPT !.timers = SubSeq(@, 1, i - 1) \o SubSeq(@, i + 1, Len(@))],
                        Ev("timer", e.fork, e.path, "", 0))
        IN  /\ TimerDue(i)
            /\ \E after \in {Uncaught(IF t.op = "timeoutWith"
                                       THEN timeoutWith_timer(s, e.fork, e.path, t)
                                       ELSE Exec(s, e.fork, e.path \o <<1>>, t.task), "host")} :
                  Commit(after)
            /\ UNCHANGED <<input, program, nforks>>

\* The host runs the oldest callback given to setImmediate.
RunImmediate ==
    /\ Len(queue) > 0
    /\ LET e == Head(queue)
           t == frames[<<e.fork, e.path>>]
           s == Logged([State EXCEPT !.queue = Tail(@)],
                       Ev("immediate", e.fork, e.path, "", 0))
       IN  Commit(Uncaught(Exec(s, e.fork, e.path \o <<1>>, t.task), "host"))
    /\ UNCHANGED <<input, program, nforks>>

Next == Fork \/ Complete \/ FireTimer \/ RunImmediate

Spec == Init /\ [][Next]_vars

(***************************************************************************)
(* What a run shows: the calls of the continuations given to Task.fork,    *)
(* the executors started and the settlements of the caller-built tasks.    *)
(***************************************************************************)
Forks == 1..nforks

ForkCalls(f) == SelectSeq(log, LAMBDA e : e.type = "call" /\ e.fork = f)

Settled(f) == SelectSeq(log, LAMBDA e : e.type = "settle" /\ e.fork = f)

Rejections(f) == SelectSeq(Settled(f), LAMBDA e : e.ch = "rej")

Resolutions(f) == SelectSeq(Settled(f), LAMBDA e : e.ch = "res")

\* nothing of fork f is outstanding: no pending task, timer or queued callback
Quiet(f) ==
    /\ \A k \in pending : k[1] # f
    /\ \A i \in 1..Len(timers) : timers[i].fork # f
    /\ \A i \in 1..Len(queue) : queue[i].fork # f

\* the positions in the log of the events of one kind at path p of fork f
At(type, f, p) == {i \in 1..Len(log) : log[i].type = type /\ log[i].fork = f /\ log[i].path = p}

\* the wrapped task of a call of timeoutWith calls its continuations twice
SettlesTwice ==
    /\ input.fn = "timeoutWith"
    /\ (IF input.args[3].op \in {"delay", "immediate"}
        THEN input.args[3].task ELSE input.args[3]).mode = "twice"

\* C1: in every fork of a task built by a combinator other than partition and
\* caught, over tasks that settle exactly once, the two continuations given to
\* the fork are called at most once in total, and exactly once when nothing
\* of the fork is outstanding any more.
C1_ExactlyOnce ==
    (input.fn \notin {"partition", "caught"} /\ ~SettlesTwice) =>
        \A f \in Forks :
            /\ Len(ForkCalls(f)) <= 1
            /\ Quiet(f) => Len(ForkCalls(f)) = 1

\* a fork whose timer fired before the wrapped task settled, now finished
C1_Witness ==
    /\ input.fn = "timeoutWith"
    /\ nforks >= 1
    /\ Quiet(1)
    /\ Len(ForkCalls(1)) = 1
    /\ \E i \in At("timer", 1, <<>>) : \E j \in 1..Len(log) :
          i < j /\ log[j].type = "settle" /\ log[j].fork = 1

\* the value the fork of one call was settled with, when it was settled once
\* on channel ch
SettledWith(f, ch) == Len(ForkCalls(f)) = 1 /\ ForkCalls(f)[1].ch = ch

\* C2: in a fork of concatParallel(left, right), as soon as one side has
\* rejected the fork has been rejected, once, with the value of the rejection
\* that arrived first, and nothing else is ever delivered to the fork.
C2_FirstRejectionWins ==
    input.fn = "concatParallel" =>
        \A f \in Forks :
            Len(Rejections(f)) > 0 =>
                /\ SettledWith(f, "rej")
                /\ ForkCalls(f)[1].v = Rejections(f)[1].v

\* the right side rejected first, the left side rejected after it
C2_Witness ==
    /\ input.fn = "concatParallel"
    /\ nforks >= 1
    /\ Len(Rejections(1)) = 2
    /\ Rejections(1)[1].path = <<2>>
    /\ ForkCalls(1)[1].v = 12

\* C3: in a fork of concatParallel(left, right) in which both sides have
\* resolved, the fork has been resolved once with concat(left's value,
\* right's value), whichever side resolved first.
C3_DeclaredOrder ==
    input.fn = "concatParallel" =>
        \A f \in Forks :
            Len(Resolutions(f)) = 2 =>
                /\ SettledWith(f, "res")
                /\ ForkCalls(f)[1].v = Concat(input.args[1].v, input.args[2].v)

\* the right side resolved before the left side
C3_Witness ==
    /\ input.fn = "concatParallel"
    /\ nforks >= 1
    /\ Len(Resolutions(1)) = 2
    /\ Resolutions(1)[1].path = <<2>>
    /\ SettledWith(1, "res")

\* the position of task k of the collection in the fold built by series and
\* by parallel: k - 1 right sides, then the left side, then the mapped task
FoldPath(k) == [i \in 1..(k + 1) |-> IF i < k THEN 2 ELSE 1]

\* the resolved values of the tasks of a collection, in input order
InputOrder(ts) == [k \in 1..Len(ts) |-> ts[k].v]

\* the positions in the log of the settlements of fork f made from a host
\* callback, after the call of the task's executor had returned
HostSettlements(f) ==
    {i \in 1..Len(log) : /\ log[i].type = "settle"
                         /\ log[i].fork = f
                         /\ frames[<<f, log[i].path>>].mode = "async"}

\* C4: in a fork of parallel(tasks) the executor of every task has been
\* started by the time the fork call returns, before any task settles from a
\* host callback, and once all tasks have resolved the fork has been resolved
\* once with their values in input order.
C4_ParallelStartsAllKeepsOrder ==
    input.fn = "parallel" =>
        LET ts == input.args[1]
        IN  \A f \in Forks :
                /\ \A k \in 1..Len(ts) :
                      \E j \in At("exec", f, FoldPath(k)) : \A i \in HostSettlements(f) : j < i
                /\ Len(Resolutions(f)) = Len(ts) =>
                      /\ SettledWith(f, "res")
                      /\ ForkCalls(f)[1].v = InputOrder(ts)

\* three tasks resolved in the order 3, 2, 1
C4_Witness ==
    /\ input.fn = "parallel"
    /\ nforks >= 1
    /\ Len(Resolutions(1)) = 3
    /\ Resolutions(1)[1].path = FoldPath(3)
    /\ Resolutions(1)[2].path = FoldPath(2)
    /\ SettledWith(1, "res")

\* C5: in a fork of parallel(tasks), as soon as one task has rejected the
\* fork has been rejected, once, with the value of the rejection that arrived
\* first among all tasks, and nothing else is ever delivered to the fork.
C5_ParallelFirstRejection ==
    input.fn = "parallel" =>
        \A f \in Forks :
            Len(Rejections(f)) > 0 =>
                /\ SettledWith(f, "rej")
                /\ ForkCalls(f)[1].v = Rejections(f)[1].v

\* task 3 rejected first, task 1 rejected after it and task 2 resolved last
C5_Witness ==
    /\ input.fn = "parallel"
    /\ nforks >= 1
    /\ Len(Settled(1)) = 3
    /\ Settled(1)[1].path = FoldPath(3) /\ Settled(1)[1].ch = "rej"
    /\ Settled(1)[2].path = FoldPath(1) /\ Settled(1)[2].ch = "rej"
    /\ Settled(1)[3].ch = "res"
    /\ ForkCalls(1)[1].v = 13

\* some event of the given kind and channel at path p of fork f
Has(type, f, p, ch) == \E i \in At(type, f, p) : log[i].ch = ch

\* every start of the executor at path p2 of fork f comes after a resolution
\* of the task at path p1
StartsAfterResolved(f, p2, p1) ==
    \A j \in At("exec", f, p2) : \E i \in At("settle", f, p1) : i < j /\ log[i].ch = "res"

\* C6: in a fork of concatSeries(left, right), right's executor is started
\* only after left has resolved; if left has rejected the fork is rejected
\* with left's value and right is not started; if right has rejected the fork
\* is rejected with right's value; if right has resolved the fork is resolved
\* with concat(l, r).
C6_ConcatSeries ==
    input.fn = "concatSeries" =>
        LET left == input.args[1]
            right == input.args[2]
        IN  \A f \in Forks :
                /\ StartsAfterResolved(f, <<2>>, <<1>>)
                /\ Has("settle", f, <<1>>, "rej") =>
                      /\ SettledWith(f, "rej")
                      /\ ForkCalls(f)[1].v = left.v
                      /\ At("exec", f, <<2>>) = {}
                /\ Has("settle", f, <<2>>, "rej") =>
                      /\ SettledWith(f, "rej")
                      /\ ForkCalls(f)[1].v = right.v
                /\ Has("settle", f, <<2>>, "res") =>
                      /\ SettledWith(f, "res")
                      /\ ForkCalls(f)[1].v = Concat(left.v, right.v)

\* left resolved from a host callback, right was started then and resolved
C6_Witness ==
    /\ input.fn = "concatSeries"
    /\ input.args[1].mode = "async"
    /\ nforks >= 1
    /\ Has("settle", 1, <<2>>, "res")
    /\ SettledWith(1, "res")

\* C7: in a fork of series(tasks) the executor of task k + 1 is started only
\* after task k has resolved, so at most one task is running, and once all
\* tasks have resolved the fork has been resolved once with their values in
\* input order.
C7_SeriesOneAtATime ==
    input.fn = "series" =>
        LET ts == input.args[1]
        IN  \A f \in Forks :
                /\ \A k \in 1..(Len(ts) - 1) :
                      StartsAfterResolved(f, FoldPath(k + 1), FoldPath(k))
                /\ Cardinality({k \in pending : k[1] = f}) <= 1
                /\ Len(Resolutions(f)) = Len(ts) =>
                      /\ SettledWith(f, "res")
                      /\ ForkCalls(f)[1].v = InputOrder(ts)

\* three tasks, each resolving from a host callback, all resolved
C7_Witness ==
    /\ input.fn = "series"
    /\ Len(input.args[1]) = 3
    /\ \A k \in 1..3 : input.args[1][k].mode = "async"
    /\ nforks >= 1
    /\ Len(Resolutions(1)) = 3
    /\ SettledWith(1, "res")

\* the first task of the collection, in input order, that rejects (0: none)
FirstRejecting(ts) ==
    IF \E k \in 1..Len(ts) : ts[k].ch = "rej"
    THEN CHOOSE k \in 1..Len(ts) :
            /\ ts[k].ch = "rej"
            /\ \A j \in 1..(k - 1) : ts[j].ch = "res"
    ELSE 0

\* C8: in a fork of series(tasks) in which some task rejects, no task after
\* the first rejecting one is ever started, the fork is never resolved, and
\* once that task has rejected the fork has been rejected once with its value.
C8_SeriesFirstRejection ==
    input.fn = "series" =>
        LET ts == input.args[1]
            k == FirstRejecting(ts)
        IN  k > 0 =>
                \A f \in Forks :
                    /\ \A j \in (k + 1)..Len(ts) : At("exec", f, FoldPath(j)) = {}
                    /\ ~SettledWith(f, "res")
                    /\ Has("settle", f, FoldPath(k), "rej") =>
                          /\ SettledWith(f, "rej")
                          /\ ForkCalls(f)[1].v = ts[k].v

\* task 1 resolved, task 2 rejected, task 3 (which would reject too) not started
C8_Witness ==
    /\ input.fn = "series"
    /\ Len(input.args[1]) = 3
    /\ FirstRejecting(input.args[1]) = 2
    /\ input.args[1][3].ch = "rej"
    /\ nforks >= 1
    /\ Has("settle", 1, FoldPath(2), "rej")
    /\ SettledWith(1, "rej")

\* C9: no fork of partition(tasks) ever has its reject continuation called.
C9_PartitionNeverRejects ==
    input.fn = "partition" =>
        \A i \in 1..Len(log) : ~(log[i].type = "call" /\ log[i].ch = "rej")

\* a task of the collection rejected and the fork resolved
C9_Witness ==
    /\ input.fn = "partition"
    /\ nforks >= 1
    /\ Len(Rejections(1)) >= 1
    /\ SettledWith(1, "res")

Range(xs) == {xs[i] : i \in 1..Len(xs)}

Values(es) == {es[i].v : i \in 1..Len(es)}

\* another fork of the task was issued while its first fork was still waiting
\* for some of its n tasks
FirstForkOverlapped(n) ==
    \E i \in 1..Len(log) :
        /\ log[i].type = "fork"
        /\ log[i].fork > 1
        /\ Cardinality({j \in 1..(i - 1) : log[j].type = "settle" /\ log[j].fork = 1}) < n

\* C10: the first fork of a partition task of n >= 1 tasks, with no other
\* fork of that task issued while it runs, is not settled before its n-th
\* task has settled and has then been resolved once with <<rejected values,
\* resolved values>>, each value in its bucket once.
C10_PartitionBuckets ==
    (input.fn = "partition" /\ Len(input.args[1]) >= 1 /\ nforks >= 1) =>
        LET n == Len(input.args[1])
        IN  ~FirstForkOverlapped(n) =>
                /\ Len(Settled(1)) < n => ForkCalls(1) = <<>>
                /\ Len(Settled(1)) = n =>
                      /\ SettledWith(1, "res")
                      /\ LET v == ForkCalls(1)[1].v
                         IN  /\ Len(v) = 2
                             /\ Len(v[1]) = Len(Rejections(1))
                             /\ Len(v[2]) = Len(Resolutions(1))
                             /\ Range(v[1]) = Values(Rejections(1))
                             /\ Range(v[2]) = Values(Resolutions(1))

\* three tasks settled in the order 3, 1, 2, one of them rejecting
C10_Witness ==
    /\ input.fn = "partition"
    /\ nforks = 1
    /\ Len(Settled(1)) = 3
    /\ Settled(1)[1].path = <<3>>
    /\ Settled(1)[2].path = <<1>>
    /\ Len(Rejections(1)) = 1
    /\ SettledWith(1, "res")

\* the buckets of value v hold, each once, the outcomes of fork f's own tasks
OwnBuckets(f, v) ==
    /\ Len(v) = 2
    /\ Len(v[1]) = Len(Rejections(f))
    /\ Len(v[2]) = Len(Resolutions(f))
    /\ Range(v[1]) = Values(Rejections(f))
    /\ Range(v[2]) = Values(Resolutions(f))

\* C11: every fork of a partition task of n >= 1 tasks, whether it follows a
\* finished fork of the same task or overlaps one, is not settled before its
\* own n-th task has settled and has then been resolved once with the
\* outcomes of its own n task executions.
C11_PartitionPrivatePerFork ==
    (input.fn = "partition" /\ Len(input.args[1]) >= 1) =>
        \A f \in Forks :
            LET n == Len(input.args[1])
            IN  /\ Len(Settled(f)) < n => ForkCalls(f) = <<>>
                /\ Len(Settled(f)) = n =>
                      /\ SettledWith(f, "res")
                      /\ OwnBuckets(f, ForkCalls(f)[1].v)

\* the caller-built task wrapped by the timeoutWith call, directly or delayed
TimeoutTask ==
    IF input.args[3].op \in {"delay", "immediate"} THEN input.args[3].task ELSE input.args[3]

\* the timer of timeoutWith at the root of fork f is armed and not yet fired
TimerArmed(f) == \E i \in 1..Len(timers) : timers[i].fork = f /\ timers[i].path = <<>>

\* C12: in a fork of timeoutWith(errFn, ms, task) whose timer has fired (which
\* it only does while task has not settled), the fork has been rejected once
\* with errFn(ms), and that stays the only call of its continuations when
\* task resolves or rejects afterwards.
C12_TimerWins ==
    input.fn = "timeoutWith" =>
        \A f \in Forks :
            At("timer", f, <<>>) # {} =>
                /\ SettledWith(f, "rej")
                /\ ForkCalls(f)[1].v = Apply(input.args[1], input.args[2])
                /\ \A j \in 1..Len(log) :
                      (log[j].type = "settle" /\ log[j].fork = f) =>
                          \E i \in At("timer", f, <<>>) : i < j

\* the timer fired, the fork was rejected with errFn(ms) and the task resolved
\* after that
C12_Witness ==
    /\ input.fn = "timeoutWith"
    /\ nforks >= 1
    /\ At("timer", 1, <<>>) # {}
    /\ Len(Resolutions(1)) = 1
    /\ ForkCalls(1) = <<Ev("call", 1, <<>>, "rej", 100 + input.args[2])>>

\* the task of fork f settled with no firing of the fork's timeout timer
\* before that
TaskWon(f) ==
    \E j \in 1..Len(log) :
        /\ log[j].type = "settle"
        /\ log[j].fork = f
        /\ \A i \in At("timer", f, <<>>) : j < i

\* C13: in a fork of timeoutWith(errFn, ms, task) whose task has settled
\* before the timer fired, the timer is cancelled and never fires (so errFn is
\* not invoked), and the fork has been settled once, on task's channel with
\* task's own value.
C13_TaskWins ==
    (input.fn = "timeoutWith" /\ ~SettlesTwice) =>
        \A f \in Forks :
            TaskWon(f) =>
                /\ ~TimerArmed(f)
                /\ At("timer", f, <<>>) = {}
                /\ SettledWith(f, TimeoutTask.ch)
                /\ ForkCalls(f)[1].v = TimeoutTask.v

\* a task delayed no longer than the timeout rejected from a host callback: the
\* fork was rejected with the task's own value
C13_Witness ==
    /\ input.fn = "timeoutWith"
    /\ input.args[3].op = "delay"
    /\ TimeoutTask.mode = "async"
    /\ nforks >= 1
    /\ TaskWon(1)
    /\ Quiet(1)
    /\ ForkCalls(1) = <<Ev("call", 1, <<>>, "rej", 11)>>

\* the exceptions of fork f that left the run they were thrown in
Throws(f, where) ==
    SelectSeq(log, LAMBDA e : e.type = "throw" /\ e.fork = f /\ e.ch = where)

\* the value the call t.exec(reject, resolve) throws before it returns, for
\* the tasks given to Task.caught here (0: the call returns normally)
RECURSIVE SyncThrow(_)
SyncThrow(t) ==
    CASE t.op = "leaf" -> IF t.mode = "throw" THEN t.v ELSE 0
      [] t.op = "map" -> SyncThrow(t.task)
      [] t.op = "chain" ->
            IF t.task.mode = "sync" /\ t.task.ch = "res"
            THEN SyncThrow(Apply(t.fn, t.task.v))
            ELSE 0
      [] OTHER -> 0

\* C14: no call of Task.fork on caught(task) lets an exception out to its
\* caller, and when the call of task's executor throws a value (at once, in
\* the executor of a task it wraps, or in a callback it runs before it
\* returns) the fork has been rejected once with that value.
C14_CaughtRejects ==
    input.fn = "caught" =>
        \A f \in Forks :
            /\ Throws(f, "fork") = <<>>
            /\ SyncThrow(input.args[1]) # 0 =>
                  /\ SettledWith(f, "rej")
                  /\ ForkCalls(f)[1].v = SyncThrow(input.args[1])

\* the executor of the task returned by chain's function threw inside the
\* call of fork, and the fork was rejected with the thrown value
C14_Witness ==
    /\ input.fn = "caught"
    /\ input.args[1].op = "chain"
    /\ input.args[1].task.mode = "sync"
    /\ input.args[1].task.ch = "res"
    /\ nforks >= 1
    /\ ForkCalls(1) = <<Ev("call", 1, <<>>, "rej", 21)>>
    /\ Throws(1, "fork") = <<>>

SettledAt(f, p) == SelectSeq(Settled(f), LAMBDA e : e.path = p)

\* C16: every fork of concatSeries(t1, t2) or concatParallel(t1, t2) over
\* resolving tasks invokes the executors afresh: t1's executor runs once in
\* each fork, t2's once in each fork that has reached it, so after k finished
\* forks each has run and produced its outcome k times, and each fork has
\* been resolved with the concatenation of the values its own two executions
\* produced.
C16_NoMemoization ==
    (/\ input.fn \in {"concatSeries", "concatParallel"}
     /\ input.args[1].ch = "res"
     /\ input.args[2].ch = "res") =>
        /\ \A f \in Forks :
              /\ Cardinality(At("exec", f, <<1>>)) = 1
              /\ Cardinality(At("exec", f, <<2>>)) <= 1
              /\ Quiet(f) =>
                    /\ Cardinality(At("exec", f, <<2>>)) = 1
                    /\ Len(SettledAt(f, <<1>>)) = 1
                    /\ Len(SettledAt(f, <<2>>)) = 1
                    /\ SettledWith(f, "res")
                    /\ ForkCalls(f)[1].v =
                          Concat(SettledAt(f, <<1>>)[1].v, SettledAt(f, <<2>>)[1].v)
        /\ (\A f \in Forks : Quiet(f)) =>
              \A p \in {<<1>>, <<2>>} :
                  Cardinality({i \in 1..Len(log) : log[i].type = "exec" /\ log[i].path = p})
                      = nforks

\* two forks of concatSeries over tasks resolving from host callbacks, both
\* finished: four executor invocations
C16_Witness ==
    /\ input.fn = "concatSeries"
    /\ \A k \in 1..2 : input.args[k].mode = "async" /\ input.args[k].ch = "res"
    /\ nforks = 2
    /\ Quiet(1) /\ Quiet(2)
    /\ Cardinality({i \in 1..Len(log) : log[i].type = "exec" /\ Len(log[i].path) = 1}) = 4
    /\ SettledWith(1, "res") /\ SettledWith(2, "res")

\* the positions of the caller's tasks in a concatParallel or parallel call,
\* in declared order
Sides ==
    IF input.fn = "concatParallel" THEN <<<<1>>, <<2>>>>
    ELSE [k \in 1..Len(input.args[1]) |-> FoldPath(k)]

\* the positions in the log of the settlements of the tasks of fork f
SettlementsOf(f) == {i \in 1..Len(log) : log[i].type = "settle" /\ log[i].fork = f}

\* C17 as stated: in every fork of concatParallel or parallel, the executor
\* of every side has been started before any side has invoked a continuation,
\* sides that settle inside their executor included.
C17_AllStartBeforeAnyOutcome ==
    input.fn \in {"concatParallel", "parallel"} =>
        \A f \in Forks : \A i \in SettlementsOf(f) : \A k \in 1..Len(Sides) :
            \E j \in At("exec", f, Sides[k]) : j < i

\* C17, amended: in every fork of concatParallel or parallel the executor of
\* every side is started once, in declared order, by the call of fork (also
\* after an earlier side has rejected inside its executor), hence before any
\* side invokes a continuation from a host callback; a side that settles
\* inside its executor does so before the sides declared after it are started.
C17_AllStartBeforeHostOutcome ==
    input.fn \in {"concatParallel", "parallel"} =>
        \A f \in Forks :
            /\ \A k \in 1..Len(Sides) : Cardinality(At("exec", f, Sides[k])) = 1
            /\ \A k \in 1..Len(Sides) : \A j \in At("exec", f, Sides[k]) :
                  /\ \A i \in HostSettlements(f) : j < i
                  /\ \A k2 \in (k + 1)..Len(Sides) : \A j2 \in At("exec", f, Sides[k2]) : j < j2
                  /\ frames[<<f, Sides[k]>>].mode = "sync" =>
                        \E i \in At("settle", f, Sides[k]) :
                            /\ j < i
                            /\ \A k2 \in (k + 1)..Len(Sides) :
                                  \A j2 \in At("exec", f, Sides[k2]) : i < j2

\* left rejected inside its executor, the fork was rejected, and right was
\* started after that and settled from a host callback
C17_Witness ==
    /\ input.fn = "concatParallel"
    /\ input.args[1].mode = "sync" /\ input.args[1].ch = "rej"
    /\ input.args[2].mode = "async"
    /\ nforks >= 1
    /\ \E i \in At("settle", 1, <<1>>) : \E j \in At("exec", 1, <<2>>) : i < j
    /\ At("settle", 1, <<2>>) # {}
    /\ SettledWith(1, "rej")

\* the calls of the function named fn made in fork f
Applications(f, fn) ==
    SelectSeq(log, LAMBDA e : e.type = "apply" /\ e.fork = f /\ e.ch = fn)

\* the channel and the value a task returned by a function of TaskFns settles
\* with
OutcomeCh(t) == CASE t.op = "of" -> "res" [] t.op = "reject" -> "rej" [] OTHER -> t.ch

\* C18: in a fork of chain(fn, task): fn is called at most once, only with
\* the value task resolved with, and the task it returns is started only
\* after task resolved; once task has rejected the fork has been rejected
\* with its value and fn is never called; once task has resolved fn has been
\* called once, the fork is not settled before the returned task is, and is
\* then settled once on that task's channel with that task's value.
C18_Chain ==
    (input.fn = "chain" /\ input.args[2].op = "leaf") =>
        LET fn == input.args[1]
            task == input.args[2]
            inner == Apply(fn, task.v)
        IN  \A f \in Forks :
                /\ StartsAfterResolved(f, <<2>>, <<1>>)
                /\ Len(Applications(f, fn)) = Cardinality(At("exec", f, <<2>>))
                /\ Has("settle", f, <<1>>, "rej") =>
                      /\ SettledWith(f, "rej")
                      /\ ForkCalls(f)[1].v = task.v
                      /\ Applications(f, fn) = <<>>
                /\ Has("settle", f, <<1>>, "res") =>
                      /\ Applications(f, fn) = <<Ev("apply", f, <<>>, fn, task.v)>>
                      /\ frames[<<f, <<2>>>>] = inner
                      /\ IF inner.op = "leaf" /\ At("settle", f, <<2>>) = {}
                         THEN ForkCalls(f) = <<>>
                         ELSE /\ SettledWith(f, OutcomeCh(inner))
                              /\ ForkCalls(f)[1].v = inner.v

\* task resolved from a host callback, fn returned a task that rejected from
\* a host callback, and the fork was rejected with that task's value
C18_Witness ==
    /\ input.fn = "chain"
    /\ input.args[1] = "toAsyncRej"
    /\ input.args[2].op = "leaf"
    /\ input.args[2].mode = "async"
    /\ nforks >= 1
    /\ Has("settle", 1, <<2>>, "rej")
    /\ ForkCalls(1) = <<Ev("call", 1, <<>>, "rej", 2)>>

\* C19: in a fork of ap(taskFn, taskVal), taskVal's executor is started only
\* after taskFn has resolved; once taskFn has rejected the fork has been
\* rejected with its value and taskVal is never started; once taskVal has
\* rejected the fork has been rejected with taskVal's value; once taskVal has
\* resolved the fork has been resolved with fn(value), fn the function taskFn
\* resolved with.
C19_Ap ==
    input.fn = "ap" =>
        LET taskFn == input.args[1]
            taskVal == input.args[2]
        IN  \A f \in Forks :
                /\ StartsAfterResolved(f, <<2>>, <<1>>)
                /\ Has("settle", f, <<1>>, "rej") =>
                      /\ SettledWith(f, "rej")
                      /\ ForkCalls(f)[1].v = taskFn.v
                      /\ At("exec", f, <<2>>) = {}
                /\ Has("settle", f, <<1>>, "res") =>
                      /\ Cardinality(At("exec", f, <<2>>)) = 1
                      /\ At("settle", f, <<2>>) = {} => ForkCalls(f) = <<>>
                /\ Has("settle", f, <<2>>, "rej") =>
                      /\ SettledWith(f, "rej")
                      /\ ForkCalls(f)[1].v = taskVal.v
                /\ Has("settle", f, <<2>>, "res") =>
                      /\ SettledWith(f, "res")
                      /\ ForkCalls(f)[1].v = Apply(taskFn.v, taskVal.v)

\* both tasks resolved from host callbacks and the fork was resolved with
\* inc(2)
C19_Witness ==
    /\ input.fn = "ap"
    /\ input.args[1].mode = "async"
    /\ input.args[2].mode = "async"
    /\ nforks >= 1
    /\ Has("settle", 1, <<2>>, "res")
    /\ ForkCalls(1) = <<Ev("call", 1, <<>>, "res", 3)>>

\* C20: in a fork of recover(predicate, transform, task), once task has
\* rejected with e: predicate has been called once with e, and if it is true
\* of e transform has been called once with e and the fork has been resolved
\* with transform(e), otherwise transform has not been called and the fork
\* has been rejected with e; once task has resolved with v the fork has been
\* resolved with v and neither function has been called.  No function is
\* called before task settles.  alwaysRecover(transform, task) resolves with
\* transform(e) for every rejection e.
C20_Recover ==
    input.fn \in {"recover", "alwaysRecover"} =>
        LET always == input.fn = "alwaysRecover"
            predicate == IF always THEN "T" ELSE input.args[1]
            transform == IF always THEN input.args[1] ELSE input.args[2]
            task == IF always THEN input.args[2] ELSE input.args[3]
        IN  \A f \in Forks :
                /\ Has("settle", f, <<1>>, "rej") =>
                      /\ Applications(f, predicate) = <<Ev("apply", f, <<>>, predicate, task.v)>>
                      /\ IF always \/ Apply(predicate, task.v)
                         THEN /\ Applications(f, transform)
                                    = <<Ev("apply", f, <<>>, transform, task.v)>>
                              /\ SettledWith(f, "res")
                              /\ ForkCalls(f)[1].v = Apply(transform, task.v)
                         ELSE /\ Applications(f, transform) = <<>>
                              /\ SettledWith(f, "rej")
                              /\ ForkCalls(f)[1].v = task.v
                /\ Has("settle", f, <<1>>, "res") =>
                      /\ SettledWith(f, "res")
                      /\ ForkCalls(f)[1].v = task.v
                /\ ~Has("settle", f, <<1>>, "rej") =>
                      /\ Applications(f, predicate) = <<>>
                      /\ Applications(f, transform) = <<>>

\* task rejected with 11 from a host callback, the predicate was false of it
\* and the fork was rejected with 11
C20_Witness ==
    /\ input.fn = "recover"
    /\ input.args[1] = "eq12"
    /\ input.args[3].mode = "async"
    /\ nforks >= 1
    /\ Has("settle", 1, <<1>>, "rej")
    /\ ForkCalls(1) = <<Ev("call", 1, <<>>, "rej", 11)>>

\* every start of the executor at path p2 of fork f comes after a rejection
\* of the task at path p1
StartsAfterRejected(f, p2, p1) ==
    \A j \in At("exec", f, p2) : \E i \in At("settle", f, p1) : i < j /\ log[i].ch = "rej"

\* C21: in a fork of chainRejected(fn, task): once task has rejected with e,
\* fn has been called once with e, the task it returned has been started, the
\* fork is not settled before that task is and is then settled once on that
\* task's channel with that task's value; once task has resolved with v the
\* fork has been resolved with v and fn is never called.
C21_ChainRejected ==
    input.fn = "chainRejected" =>
        LET fn == input.args[1]
            task == input.args[2]
            inner == Apply(fn, task.v)
        IN  \A f \in Forks :
                /\ StartsAfterRejected(f, <<2>>, <<1>>)
                /\ Len(Applications(f, fn)) = Cardinality(At("exec", f, <<2>>))
                /\ Has("settle", f, <<1>>, "res") =>
                      /\ SettledWith(f, "res")
                      /\ ForkCalls(f)[1].v = task.v
                      /\ Applications(f, fn) = <<>>
                /\ Has("settle", f, <<1>>, "rej") =>
                      /\ Applications(f, fn) = <<Ev("apply", f, <<>>, fn, task.v)>>
                      /\ frames[<<f, <<2>>>>] = inner
                      /\ IF inner.op = "leaf" /\ At("settle", f, <<2>>) = {}
                         THEN ForkCalls(f) = <<>>
                         ELSE /\ SettledWith(f, OutcomeCh(inner))
                              /\ ForkCalls(f)[1].v = inner.v

\* task rejected with 11 from a host callback, fn returned a task that
\* resolved with 12 from a host callback, and the fork was resolved with 12
C21_Witness ==
    /\ input.fn = "chainRejected"
    /\ input.args[1] = "toAsyncRes"
    /\ input.args[2].mode = "async"
    /\ nforks >= 1
    /\ Has("settle", 1, <<2>>, "res")
    /\ ForkCalls(1) = <<Ev("call", 1, <<>>, "res", 12)>>

\* C22: in a fork of map(fn, task), once task has resolved with v, fn has
\* been called once with v and the fork has been resolved with fn(v); once
\* task has rejected with e the fork has been rejected with e and fn has not
\* been called.  In a fork of mapRejected(fn, task), once task has rejected
\* with e, fn has been called once with e and the fork has been rejected with
\* fn(e); once task has resolved with v the fork has been resolved with v and
\* fn has not been called.
C22_MapAndMapRejected ==
    (input.fn \in {"map", "mapRejected"} /\ input.args[2].op = "leaf") =>
        LET fn == input.args[1]
            task == input.args[2]
            own == IF input.fn = "map" THEN "res" ELSE "rej"
        IN  \A f \in Forks :
                /\ Settled(f) = <<>> => Applications(f, fn) = <<>> /\ ForkCalls(f) = <<>>
                /\ Settled(f) # <<>> =>
                      /\ SettledWith(f, task.ch)
                      /\ IF task.ch = own
                         THEN /\ Applications(f, fn) = <<Ev("apply", f, <<>>, fn, task.v)>>
                              /\ ForkCalls(f)[1].v = Apply(fn, task.v)
                         ELSE /\ Applications(f, fn) = <<>>
                              /\ ForkCalls(f)[1].v = task.v

\* map(inc, task): task rejected with 11 from a host callback and the fork
\* was rejected with 11, inc not called
C22_Witness ==
    /\ input.fn = "map"
    /\ input.args[1] = "inc"
    /\ input.args[2].op = "leaf"
    /\ input.args[2].mode = "async"
    /\ nforks >= 1
    /\ Applications(1, "inc") = <<>>
    /\ ForkCalls(1) = <<Ev("call", 1, <<>>, "rej", 11)>>

\* C23: every fork of series(empty) and of parallel(empty) has been resolved,
\* once, with the empty container by the time the call of fork returns, and
\* every fork of partition(empty) with the container of two empty containers;
\* none is rejected.
C23_EmptyCollections ==
    (input.fn \in {"series", "parallel", "partition"} /\ Len(input.args[1]) = 0) =>
        \A f \in Forks :
            ForkCalls(f) =
                <<Ev("call", f, <<>>, "res",
                     IF input.fn = "partition" THEN <<ArrEmpty, ArrEmpty>> ELSE ArrEmpty)>>

\* partition of the empty collection forked twice, each fork resolved
C23_Witness ==
    /\ input.fn = "partition"
    /\ Len(input.args[1]) = 0
    /\ nforks = 2
    /\ SettledWith(1, "res") /\ SettledWith(2, "res")
    /\ ForkCalls(2)[1].v = <<ArrEmpty, ArrEmpty>>

\* value is an object with constructor's prototype in its prototype chain
InstanceOf(value, constructor) ==
    \E i \in 1..Len(value.prototypes) : value.prototypes[i] = constructor

Callbacks(f) == SelectSeq(log, LAMBDA e : e.type = "callback" /\ e.fork = f)

\* C25: the function given to fromAsync or fromAsync2 is called once by each
\* fork and not otherwise; a fork is not settled before the function calls
\* its callback.  Once it has called back with (error, value), a fork of
\* fromAsync has been rejected with error when error is neither null nor
\* undefined, and resolved with value otherwise; a fork of fromAsync2 has
\* been resolved with the first argument of the call and is never rejected.
C25_FromAsync ==
    input.fn \in {"fromAsync", "fromAsync2"} =>
        LET async == input.args[1]
        IN  /\ Cardinality({i \in 1..Len(log) : log[i].type = "apply"}) = nforks
            /\ \A f \in Forks :
                  /\ Applications(f, "async") = <<Ev("apply", f, <<>>, "async", <<>>)>>
                  /\ Callbacks(f) = <<>> => ForkCalls(f) = <<>>
                  /\ Callbacks(f) # <<>> =>
                        LET args == Callbacks(f)[1].v
                        IN  /\ Len(Callbacks(f)) = 1
                            /\ args = CallbackArgs(async)
                            /\ IF input.fn = "fromAsync2"
                               THEN SettledWith(f, "res") /\ ForkCalls(f)[1].v = args[1]
                               ELSE IF args[1] # Null /\ args[1] # Undefined
                               THEN SettledWith(f, "rej") /\ ForkCalls(f)[1].v = args[1]
                               ELSE SettledWith(f, "res") /\ ForkCalls(f)[1].v = args[2]

\* the function called back with ("", 1) from a host callback: the fork was
\* rejected with the empty string
C25_Witness ==
    /\ input.fn = "fromAsync"
    /\ input.args[1].mode = "async"
    /\ input.args[1].err = ""
    /\ nforks >= 1
    /\ Len(Callbacks(1)) = 1
    /\ SettledWith(1, "rej")
    /\ ForkCalls(1)[1].v = ""

\* C26: for a callback-style function async of n parameters, taskify(async)
\* and taskify2(async) are functions of n - 1 parameters; given fewer
\* arguments they return a function of the remaining ones, and once all are
\* given, at once or one at a time, they return the Task fromAsync (for
\* taskify2: fromAsync2) makes of async with those arguments, without calling
\* async.  Each fork of that Task calls async once with those arguments and
\* is settled as a fork of fromAsync (fromAsync2) is: rejected with a
\* non-null error, else resolved with the value; taskify2 always resolves.
C26_Taskify ==
    input.fn \in {"taskify", "taskify2"} =>
        LET async == input.args[1]
            plain == input.fn = "taskify"
            g == IF plain THEN taskify(async) ELSE taskify2(async)
            args == CallbackArgs(Bind(async, <<1, 2>>))
        IN  /\ g.op = "function" /\ g.length = async.length - 1
            /\ CallCurried(g, <<1>>).op = "function"
            /\ CallCurried(g, <<1>>).length = async.length - 2
            /\ program = IF plain THEN fromAsync(Bind(async, <<1, 2>>))
                                  ELSE fromAsync2(Bind(async, <<1, 2>>))
            /\ nforks = 0 => log = <<>>
            /\ \A f \in Forks :
                  /\ Applications(f, "async") = <<Ev("apply", f, <<>>, "async", <<1, 2>>)>>
                  /\ Callbacks(f) = <<>> => ForkCalls(f) = <<>>
                  /\ Callbacks(f) # <<>> =>
                        /\ Callbacks(f) = <<Ev("callback", f, <<>>, "", args)>>
                        /\ IF ~plain
                           THEN SettledWith(f, "res") /\ ForkCalls(f)[1].v = 3
                           ELSE IF args[1] # Null /\ args[1] # Undefined
                           THEN SettledWith(f, "rej") /\ ForkCalls(f)[1].v = args[1]
                           ELSE SettledWith(f, "res") /\ ForkCalls(f)[1].v = 3

\* taskify(async)(1)(2) forked: async called back with (null, 3) from a host
\* callback and the fork was resolved with 3
C26_Witness ==
    /\ input.fn = "taskify"
    /\ Len(input.args[2]) = 2
    /\ input.args[1].mode = "async"
    /\ input.args[1].err = Null
    /\ nforks >= 1
    /\ Len(Callbacks(1)) = 1
    /\ SettledWith(1, "res")
    /\ ForkCalls(1)[1].v = 3

\* the state after Task.fork(rejected, resolved, t) on a newly built t
RunOf(t) ==
    Uncaught(Exec(Logged(Construction(t), Ev("fork", 1, <<>>, "", 0)), 1, <<>>, t), "fork")

\* however the host completes what the run s left pending, the fork of s ends
\* settled once, on channel ch with value v
RECURSIVE EndsWith(_, _, _)
EndsWith(s, ch, v) ==
    IF s.pending = {}
    THEN LET calls == SelectSeq(s.log, LAMBDA e : e.type = "call")
         IN  /\ Len(calls) = 1
             /\ calls[1].ch = ch
             /\ calls[1].v = v
    ELSE \A k \in s.pending : EndsWith(CompleteStep(s, k), ch, v)

\* fork f has finished and a fork of task t always ends settled as f was
SettlesAs(f, t) ==
    /\ Len(ForkCalls(f)) = 1
    /\ EndsWith(RunOf(t), ForkCalls(f)[1].ch, ForkCalls(f)[1].v)

\* C27: every finished fork of map(id, t) is settled, once, on the channel
\* and with the value a fork of t is settled with, and every finished fork of
\* map(f, map(g, t)) as a fork of map(compose(f, g), t) is.
C27_FunctorLaws ==
    input.fn = "map" =>
        \A f \in Forks :
            Quiet(f) =>
                /\ (input.args[1] = "id" /\ input.args[2].op = "leaf") =>
                      SettlesAs(f, input.args[2])
                /\ input.args[2].op = "map" =>
                      SettlesAs(f, map(compose(input.args[1], input.args[2].fn),
                                       input.args[2].task))

\* map(inc, map(double, t)): t resolved with 1 from a host callback and the
\* fork was resolved with 3
C27_Witness ==
    /\ input.fn = "map"
    /\ input.args[1] = "inc"
    /\ input.args[2].op = "map"
    /\ input.args[2].task.mode = "async"
    /\ nforks >= 1
    /\ Quiet(1)
    /\ SettledWith(1, "res")
    /\ ForkCalls(1)[1].v = 3

\* C28: every finished fork of chain(Task.of, t) is settled, once, on the
\* channel and with the value a fork of t is settled with, and every finished
\* fork of chain(fn, Task.of(v)) as a fork of the task fn(v) is.
C28_MonadLaws ==
    input.fn = "chain" =>
        \A f \in Forks :
            Quiet(f) =>
                /\ (input.args[1] = "Task.of" /\ input.args[2].op = "leaf") =>
                      SettlesAs(f, input.args[2])
                /\ input.args[2].op = "of" =>
                      SettlesAs(f, Apply(input.args[1], input.args[2].v))

\* chain(fn, Task.of(1)) with fn returning a task that rejects with 2 from a
\* host callback: the fork was rejected with 2
C28_Witness ==
    /\ input.fn = "chain"
    /\ input.args[1] = "toAsyncRej"
    /\ input.args[2].op = "of"
    /\ nforks >= 1
    /\ Quiet(1)
    /\ SettledWith(1, "rej")
    /\ ForkCalls(1)[1].v = 2

\* the functions a run called, with the value each was called with, in order
AppliedIn(l) ==
    LET calls == SelectSeq(l, LAMBDA e : e.type = "apply")
    IN  [i \in 1..Len(calls) |-> <<calls[i].ch, calls[i].v>>]

\* however the host completes what the run s left pending, the run has called
\* exactly the functions of applied, in that order
RECURSIVE EndsApplying(_, _)
EndsApplying(s, applied) ==
    IF s.pending = {}
    THEN AppliedIn(s.log) = applied
    ELSE \A k \in s.pending : EndsApplying(CompleteStep(s, k), applied)

\* the functions fork f called
AppliedBy(f) == AppliedIn(SelectSeq(log, LAMBDA e : e.fork = f))

\* C29: every finished fork of bimap(onRej, onRes, task) is settled, once, on
\* the channel and with the value a fork of map(onRes, mapRejected(onRej, task))
\* is settled with; either of them calls exactly one of the two transforms,
\* once: onRej with the value task was rejected with, or onRes with the value
\* task was resolved with.
C29_BimapIsMapOfMapRejected ==
    input.fn = "bimap" =>
        \A f \in Forks :
            Quiet(f) =>
                LET onRej == input.args[1]
                    onRes == input.args[2]
                    task == input.args[3]
                    composed == map(onRes, mapRejected(onRej, task))
                    once == <<<<IF task.ch = "rej" THEN onRej ELSE onRes, task.v>>>>
                IN  /\ SettlesAs(f, composed)
                    /\ SettledWith(f, task.ch)
                    /\ AppliedBy(f) = once
                    /\ EndsApplying(RunOf(composed), once)

\* bimap(double, inc, task): task was rejected with 12 from a host callback,
\* double was called once and the fork was rejected with 24
C29_Witness ==
    /\ input.fn = "bimap"
    /\ input.args[3].mode = "async"
    /\ input.args[3].ch = "rej"
    /\ input.args[3].v = 12
    /\ Quiet(1)
    /\ AppliedBy(1) = <<<<"double", 12>>>>
    /\ ForkCalls(1) = <<Ev("call", 1, <<>>, "rej", 24)>>

\* C30: for tasks t1, t2, t3 that resolve, every finished fork of
\* concat(concat(t1, t2), t3) and of concat(t1, concat(t2, t3)), concat being
\* concatSeries or concatParallel, is resolved, once, with the values of t1,
\* t2 and t3 in that order, whatever order the tasks complete in, and the
\* other grouping always ends the same way.
C30_ConcatAssociative ==
    input.fn \in {"t4", "t5"} =>
        \A f \in Forks :
            Quiet(f) =>
                LET fn == input.args[1]
                    t1 == input.args[2]
                    t2 == input.args[3]
                    t3 == input.args[4]
                    other == IF input.fn = "t4"
                             THEN Concatenation(fn, t1, Concatenation(fn, t2, t3))
                             ELSE Concatenation(fn, Concatenation(fn, t1, t2), t3)
                IN  /\ SettledWith(f, "res")
                    /\ ForkCalls(f)[1].v = t1.v \o t2.v \o t3.v
                    /\ SettlesAs(f, other)

\* concatParallel(concatParallel(t1, t2), t3) over tasks resolving from host
\* callbacks: t3 completed first, then t2, then t1, and the fork was resolved
\* with <<1, 2, 3>>
C30_Witness ==
    /\ input.fn = "t4"
    /\ input.args[1] = "concatParallel"
    /\ \A i \in 2..4 : input.args[i].mode = "async"
    /\ Quiet(1)
    /\ LET done == SelectSeq(log, LAMBDA e : e.type = "settle" /\ e.fork = 1)
       IN  /\ Len(done) = 3
           /\ done[1].path = <<2>>
           /\ done[2].path = <<1, 2>>
           /\ done[3].path = <<1, 1>>
    /\ ForkCalls(1) = <<Ev("call", 1, <<>>, "res", <<1, 2, 3>>)>>

(***************************************************************************)
(* Deferred starts.                                                        *)
(***************************************************************************)
\* the events of fork f, in order
EventsOf(f) == SelectSeq(log, LAMBDA e : e.fork = f)

\* the kinds of the events of fork f up to the first start of the executor at
\* position <<1>>, that start included
UpToStart(f) ==
    LET es == EventsOf(f)
        starts == {i \in 1..Len(es) : es[i].type = "exec" /\ es[i].path = <<1>>}
    IN  IF starts = {} THEN <<>>
        ELSE LET first == CHOOSE i \in starts : \A j \in starts : i <= j
             IN  [i \in 1..first |-> es[i].type]

\* C31: in every fork of immediate(task) the call of fork only starts the
\* executor of immediate; the executor of task is started at most once, by the
\* callback the host runs from its queue on a later turn, and a finished fork
\* has started it once and is settled, once, on task's channel with task's value.
C31_Immediate ==
    input.fn = "immediate" =>
        \A f \in Forks :
            LET task == input.args[1]
            IN  /\ Cardinality(At("exec", f, <<1>>)) <= 1
                /\ UpToStart(f) \in {<<>>, <<"fork", "exec", "immediate", "exec">>}
                /\ (\E i \in 1..Len(queue) : queue[i].fork = f) => At("exec", f, <<1>>) = {}
                /\ Quiet(f) =>
                      /\ Cardinality(At("exec", f, <<1>>)) = 1
                      /\ SettledWith(f, task.ch)
                      /\ ForkCalls(f)[1].v = task.v

\* immediate(task), task rejecting with 11 inside its executor: the fork
\* returned with the callback queued, the host ran it, the fork was rejected
C31_Witness ==
    /\ input.fn = "immediate"
    /\ input.args[1].mode = "sync"
    /\ input.args[1].ch = "rej"
    /\ nforks = 2
    /\ UpToStart(1) = <<"fork", "exec", "immediate", "exec">>
    /\ ForkCalls(1) = <<Ev("call", 1, <<>>, "rej", 11)>>
    /\ Len(queue) = 1
    /\ At("exec", 2, <<1>>) = {}

\* the timers of fork f that are armed, as <<position, duration>>
ArmedTimers(f) ==
    {<<timers[i].path, timers[i].ms>> : i \in {j \in 1..Len(timers) : timers[j].fork = f}}

\* C32: in every fork of delay(ms, task) the call of fork arms one timer of
\* ms and starts nothing else; the executor of task is started at most once,
\* by the callback of that timer when it fires, and a finished fork has
\* started it once and is settled, once, on task's channel with task's value.
C32_Delay ==
    input.fn = "delay" =>
        \A f \in Forks :
            LET ms == input.args[1]
                task == input.args[2]
            IN  /\ Cardinality(At("exec", f, <<1>>)) <= 1
                /\ UpToStart(f) \in {<<>>, <<"fork", "exec", "timer", "exec">>}
                /\ IF At("timer", f, <<>>) = {}
                   THEN ArmedTimers(f) = {<<<<>>, ms>>} /\ At("exec", f, <<1>>) = {}
                   ELSE ArmedTimers(f) = {} /\ Cardinality(At("exec", f, <<1>>)) = 1
                /\ Cardinality(At("timer", f, <<>>)) <= 1
                /\ Quiet(f) =>
                      /\ SettledWith(f, task.ch)
                      /\ ForkCalls(f)[1].v = task.v

\* delay(1, task), task resolving with 1 from a host callback: the timer of the
\* first fork fired, task was started and resolved the fork, while the timer
\* of the second fork is still armed and its task not started
C32_Witness ==
    /\ input.fn = "delay"
    /\ input.args[1] = 1
    /\ input.args[2].mode = "async"
    /\ nforks = 2
    /\ UpToStart(1) = <<"fork", "exec", "timer", "exec">>
    /\ ForkCalls(1) = <<Ev("call", 1, <<>>, "res", 1)>>
    /\ ArmedTimers(2) = {<<<<>>, 1>>}
    /\ At("exec", 2, <<1>>) = {}

(***************************************************************************)
(* Task.timeoutWith and the work of the task it wraps.                     *)
(***************************************************************************)
\* the position of the caller-built task in a fork of timeoutWith(_, _, task)
TimeoutTaskPath == IF input.args[3].op \in {"delay", "immediate"} THEN <<1, 1>> ELSE <<1>>

\* what the wrapped task of fork f has under way or has done: a timer of
\* its own still armed, a callback of its own still queued, its executor
\* waiting for the host, or its settlement
WorkOf(f) ==
    {"armed" : i \in {j \in 1..Len(timers) : timers[j].fork = f /\ timers[j].path = <<1>>}}
    \cup {"queued" : i \in {j \in 1..Len(queue) : queue[j].fork = f /\ queue[j].path = <<1>>}}
    \cup {"pending" : k \in {j \in pending : j = <<f, TimeoutTaskPath>>}}
    \cup {"settled" : i \in At("settle", f, TimeoutTaskPath)}

\* C33: in every fork of timeoutWith(errFn, ms, task) the executor of task is
\* started exactly once, by the call of fork, and its work is never taken
\* away: at every moment a task that settles is waiting for its own timer or
\* queued callback, waiting for the host, or has settled, once; also after
\* the timeout timer fired, when the fork keeps the one rejection the timer
\* gave it.
C33_NoCancellation ==
    input.fn = "timeoutWith" =>
        \A f \in Forks :
            /\ Cardinality(At("exec", f, <<1>>)) = 1
            /\ Cardinality(At("exec", f, TimeoutTaskPath)) <= 1
            /\ Cardinality(At("settle", f, TimeoutTaskPath)) <= 1
            /\ TimeoutTask.mode # "never" => Cardinality(WorkOf(f)) = 1
            /\ WorkOf(f) \cap {"armed", "queued"} = {} =>
                  Cardinality(At("exec", f, TimeoutTaskPath)) = 1
            /\ At("timer", f, <<>>) # {} =>
                  ForkCalls(f) = <<Ev("call", f, <<>>, "rej",
                                      Apply(input.args[1], input.args[2]))>>

\* timeoutWith(errFn, 0, delay(1, task)): the timeout timer fired and rejected
\* the fork, the timer of delay fired after that, task was started and
\* resolved from a host callback, and the fork kept its one rejection
C33_Witness ==
    /\ input.fn = "timeoutWith"
    /\ input.args[2] = 0
    /\ input.args[3].op = "delay"
    /\ input.args[3].task.mode = "async"
    /\ input.args[3].task.ch = "res"
    /\ nforks = 1
    /\ \E i \in At("timer", 1, <<>>), j \in At("timer", 1, <<1>>), k \in At("settle", 1, <<1, 1>>) :
          i < j /\ j < k
    /\ WorkOf(1) = {"settled"}
    /\ ForkCalls(1) = <<Ev("call", 1, <<>>, "rej", 100)>>

(***************************************************************************)
(* Task.caught and settlements that come with an exception.                *)
(***************************************************************************)
\* C34: in every fork of caught(task), task built by the caller and calling
\* one continuation once, the two functions given to the fork are called at
\* most once in total, and exactly once when nothing of the fork is
\* outstanding; also when task's executor throws after calling the
\* continuation, and when the function the fork gave as resolved throws.
C34_CaughtExactlyOnce ==
    (/\ input.fn = "caught"
     /\ input.args[1].op = "leaf"
     /\ input.args[1].mode \in {"sync", "async", "settleThrow"}) =>
        \A f \in Forks :
            /\ Len(ForkCalls(f)) <= 1
            /\ Quiet(f) => Len(ForkCalls(f)) = 1

(***************************************************************************)
(* The guard of Task.timeoutWith.                                          *)
(***************************************************************************)
\* C35: in every fork of timeoutWith(errFn, ms, task), also over a task that
\* calls its continuations twice, the two functions given to the fork are
\* called at most once in total: once the timer or the task has settled the
\* fork, nothing further is forwarded.
C35_GuardSingleUse ==
    input.fn = "timeoutWith" =>
        \A f \in Forks : Len(ForkCalls(f)) <= 1

(***************************************************************************)
(* Guards are variables of one executor invocation.                        *)
(***************************************************************************)
\* the channel on which fork f of concatParallel or timeoutWith has to be
\* settled, judging by its own sub-executions and timer alone ("" while they
\* have decided nothing)
OwnCh(f) ==
    IF input.fn = "concatParallel"
    THEN IF Rejections(f) # <<>> THEN "rej"
         ELSE IF Len(Resolutions(f)) = 2 THEN "res" ELSE ""
    ELSE IF TaskWon(f) THEN TimeoutTask.ch
         ELSE IF At("timer", f, <<>>) # {} THEN "rej" ELSE ""

\* the value that goes with OwnCh(f)
OwnValue(f) ==
    IF input.fn = "concatParallel"
    THEN IF Rejections(f) # <<>> THEN Rejections(f)[1].v
         ELSE Concat(input.args[1].v, input.args[2].v)
    ELSE IF TaskWon(f) THEN TimeoutTask.v
         ELSE Apply(input.args[1], input.args[2])

\* two forks whose lifetimes overlap: both were issued before either was
\* settled
Overlap(f, g) ==
    \E i \in 1..Len(log), j \in 1..Len(log) :
        /\ log[i].type = "fork" /\ log[i].fork = f
        /\ log[j].type = "fork" /\ log[j].fork = g
        /\ \A k \in 1..Len(log) : log[k].type = "call" => (i < k /\ j < k)

\* C36: every fork of one concatParallel or timeoutWith task, over tasks that
\* settle once, is settled by its own sub-executions and its own timer alone,
\* whatever the other forks of the task do and however the forks overlap: a
\* continuation of fork f is called only by a step of fork f, at most once,
\* with the outcome the settlements and the timer of f call for, and it has
\* been called once that outcome is decided.
C36_GuardsPerFork ==
    (input.fn \in {"concatParallel", "timeoutWith"} /\ ~SettlesTwice) =>
        \A f \in Forks :
            /\ \A i \in 1..Len(log) :
                  (log[i].type = "call" /\ log[i].fork = f) =>
                      \E j \in 1..(i - 1) :
                          /\ log[j].fork = f
                          /\ log[j].type \in {"settle", "timer"}
                          /\ \A k \in (j + 1)..(i - 1) :
                                log[k].fork = f /\ log[k].type = "apply"
            /\ IF OwnCh(f) = ""
               THEN ForkCalls(f) = <<>>
               ELSE /\ SettledWith(f, OwnCh(f))
                    /\ ForkCalls(f)[1].v = OwnValue(f)
            /\ Quiet(f) => OwnCh(f) # ""

\* concatParallel(left, right) forked twice before anything completed, left
\* rejecting from a host callback: fork 1 was rejected by its left side while
\* fork 2 was undecided, and fork 2 was rejected later by its own left side
C36_Witness ==
    /\ input.fn = "concatParallel"
    /\ input.args[1].mode = "async"
    /\ input.args[1].ch = "rej"
    /\ input.args[2].mode = "async"
    /\ nforks = 2
    /\ Overlap(1, 2)
    /\ ForkCalls(1) = <<Ev("call", 1, <<>>, "rej", 11)>>
    /\ ForkCalls(2) = <<Ev("call", 2, <<>>, "rej", 11)>>
    /\ \E i \in At("call", 1, <<>>), j \in At("settle", 2, <<1>>) : i < j
    /\ pending = {<<1, <<2>>>>, <<2, <<2>>>>}

\* C37: in every fork of caught(task), an exception thrown in a host callback
\* (a timer or queue callback task scheduled, or a completion the host
\* delivers), after the call of task's executor returned, leaves that
\* callback uncaught: the fork's rejected function is never called with it.
\* Over delay(ms, t) and immediate(t) with t throwing when started, the
\* continuations of the fork are never called at all.
C37_CaughtNotAsync ==
    input.fn = "caught" =>
        \A f \in Forks :
            /\ \A i \in 1..Len(Throws(f, "host")) :
                  \A j \in 1..Len(ForkCalls(f)) :
                      ~(ForkCalls(f)[j].ch = "rej" /\ ForkCalls(f)[j].v = Throws(f, "host")[i].v)
            /\ input.args[1].op \in {"delay", "immediate"} =>
                  /\ ForkCalls(f) = <<>>
                  /\ Throws(f, "fork") = <<>>
                  /\ Quiet(f) => Throws(f, "host") = <<Ev("throw", f, <<>>, "host", 21)>>

\* caught(delay(1, t)), t throwing 21 when started: the call of fork returned,
\* the timer fired, the exception left the timer callback and no continuation
\* of the fork was called
C37_Witness ==
    /\ input.fn = "caught"
    /\ input.args[1].op = "delay"
    /\ input.args[1].delay = 1
    /\ nforks = 1
    /\ At("timer", 1, <<1>>) # {}
    /\ At("exec", 1, <<1, 1>>) # {}
    /\ Throws(1, "host") = <<Ev("throw", 1, <<>>, "host", 21)>>
    /\ ForkCalls(1) = <<>>

(***************************************************************************)
(* Task.flatten.                                                           *)
(***************************************************************************)
\* C38: every finished fork of flatten(task) is settled, once, as a fork of
\* chain(identity, task) always is; once task has rejected the fork has been
\* rejected with its value and no inner task is started; once task has
\* resolved with an inner task, that task has been started once, only after
\* task resolved, and the fork is settled when the inner task is, on its
\* channel with its value.
C38_FlattenIsChainIdentity ==
    input.fn = "flatten" =>
        LET task == input.args[1]
        IN  \A f \in Forks :
                /\ StartsAfterResolved(f, <<2>>, <<1>>)
                /\ Has("settle", f, <<1>>, "rej") =>
                      /\ At("exec", f, <<2>>) = {}
                      /\ SettledWith(f, "rej")
                      /\ ForkCalls(f)[1].v = task.v
                /\ Has("settle", f, <<1>>, "res") =>
                      /\ Cardinality(At("exec", f, <<2>>)) = 1
                      /\ frames[<<f, <<2>>>>] = task.v
                      /\ IF At("settle", f, <<2>>) = {}
                         THEN ForkCalls(f) = <<>>
                         ELSE /\ SettledWith(f, task.v.ch)
                              /\ ForkCalls(f)[1].v = task.v.v
                /\ Quiet(f) => SettlesAs(f, chain("id", task))

\* flatten(task): task resolved from a host callback with an inner task, which
\* was started then and rejected from a host callback; the fork was rejected
\* with the inner task's value
C38_Witness ==
    /\ input.fn = "flatten"
    /\ input.args[1].mode = "async"
    /\ input.args[1].ch = "res"
    /\ input.args[1].v.mode = "async"
    /\ input.args[1].v.ch = "rej"
    /\ nforks = 1
    /\ \E i \in At("settle", 1, <<1>>), j \in At("exec", 1, <<2>>), k \in At("settle", 1, <<2>>) :
          i < j /\ j < k
    /\ ForkCalls(1) = <<Ev("call", 1, <<>>, "rej", 12)>>

(***************************************************************************)
(* Task.timeoutWith settles.  The host fires every timer that stays armed: *)
(* that is the one thing asked of it here; nothing is asked of the tasks.  *)
(***************************************************************************)
\* the calls of timeoutWith over a task that calls a continuation once or never
TimeoutInit == Init /\ input.fn = "timeoutWith" /\ ~SettlesTwice

TimeoutSpec == TimeoutInit /\ [][Next]_vars /\ WF_vars(FireTimer)

\* C39: every fork of timeoutWith(errFn, ms, task), errFn returning a value,
\* is eventually settled, whether or not task ever calls a continuation; a
\* fork of a task that never does is eventually rejected with errFn(ms).
C39_TimeoutSettles ==
    \A f \in 1..MaxForks :
        /\ (nforks >= f) ~> (Len(ForkCalls(f)) >= 1)
        /\ (nforks >= f /\ TimeoutTask.mode = "never") ~>
              (ForkCalls(f) = <<Ev("call", f, <<>>, "rej", Apply(input.args[1], input.args[2]))>>)

\* timeoutWith(errFn, 1, task), task never calling a continuation: the timer
\* fired and the fork was rejected with errFn(1)
C39_Witness ==
    /\ input.fn = "timeoutWith"
    /\ input.args[2] = 1
    /\ input.args[3].op = "leaf"
    /\ input.args[3].mode = "never"
    /\ nforks = 1
    /\ At("exec", 1, <<1>>) # {}
    /\ At("timer", 1, <<>>) # {}
    /\ ForkCalls(1) = <<Ev("call", 1, <<>>, "rej", 101)>>

\* C40: every fork of timeoutWith(errFn, ms, task), task calling a
\* continuation once inside its executor, has been settled by the call of
\* fork, once, on task's channel with task's value, for every ms from 0 on;
\* its timer is not armed any more and never fires, and errFn is never called.
C40_SyncTaskWins ==
    (/\ input.fn = "timeoutWith"
     /\ input.args[3].op = "leaf"
     /\ input.args[3].mode = "sync") =>
        \A f \in Forks :
            /\ SettledWith(f, input.args[3].ch)
            /\ ForkCalls(f)[1].v = input.args[3].v
            /\ ArmedTimers(f) = {}
            /\ At("timer", f, <<>>) = {}
            /\ Applications(f, input.args[1]) = <<>>
            /\ \E i \in At("fork", f, <<>>), j \in At("settle", f, <<1>>), k \in At("call", f, <<>>) :
                  i < j /\ j < k /\ \A n \in i..k : log[n].fork = f

\* timeoutWith(errFn, 0, task), task resolving with 1 inside its executor:
\* the fork was resolved with 1 and no timer is left to fire
C40_Witness ==
    /\ input.fn = "timeoutWith"
    /\ input.args[2] = 0
    /\ input.args[3].op = "leaf"
    /\ input.args[3].mode = "sync"
    /\ input.args[3].ch = "res"
    /\ nforks = 2
    /\ timers = <<>>
    /\ ForkCalls(1) = <<Ev("call", 1, <<>>, "res", 1)>>
    /\ ForkCalls(2) = <<Ev("call", 2, <<>>, "res", 1)>>

====
